---- MODULE Spec2Model ----
(***************************************************************************)
(* Model of the scheduling core of the AI calendar: the conflict detector  *)
(* (services/scheduler/conflicts.ts), the habit learner and its queries    *)
(* (services/storage/habits.ts) with the store action that calls it, the   *)
(* free-slot finder and the slot scorer (services/scheduler/               *)
(* suggestions.ts), the calendar store's visible events and conflicts      *)
(* (stores/calendarStore.ts, services/storage/events.ts), the conversation *)
(* history of the AI client (services/ai/claude.ts), the event reminders   *)
(* and their checker (services/scheduler/reminders.ts), the task reminders *)
(* (services/storage/tasks.ts) and the store's actions suspended at their  *)
(* awaits.                                                                 *)
(*                                                                         *)
(* Instants of the conflict detector are abstract integers 0..MaxTime (the *)
(* code compares getTime() values only).  All other instants are seconds   *)
(* of local time counted from a Sunday 00:00, so that weekday, hour,       *)
(* minute and the truncation of differenceInMinutes are computed.          *)
(***************************************************************************)
EXTENDS Integers, Sequences, FiniteSets, TLC

VARIABLES
    events,             \* detectConflicts / hasConflict: the input CalendarEvent[]
    conflicts,          \* detectConflicts: the returned Conflict[]
    hasConflictResult,  \* hasConflict: the call made and the boolean returned
    phase,              \* position of the conflict-detector run
    habits,             \* db.habits: the stored patterns, in primary-key order
    calls,              \* the learnFromEvent invocations in flight
    history,            \* the events whose learning has completed, in order
    seeded,             \* how many of them were learned in earlier sessions
    avgDurationResult,  \* getAvgDurationForCategory: the call made and its result
    finderEvents,       \* findFreeSlots / findNextAvailableSlot: the events passed
    finderArgs,         \* the range, the working hours and the minimum duration passed
    freeSlots,          \* findFreeSlots: the returned FreeSlot[]
    nextSlot,           \* findNextAvailableSlot: the returned FreeSlot, or none for null
    finderPhase,        \* position of the finder run
    scorerArgs,         \* suggestBestTimes: the arguments passed
    suggestions,        \* suggestBestTimes: the returned TimeSuggestion[]
    scorerPhase,        \* position of the scorer run
    dbEvents,           \* db.events: the stored events, in primary-key order
    currentDate,        \* calendar store: the date shown
    view,               \* calendar store: 'month', 'week' or 'day'
    visibleEvents,      \* calendar store: the events of the range shown
    storeConflicts,     \* calendar store: the conflicts of the banner
    conversationHistory,\* claude.ts: the module-level message history
    sends,              \* the sendMessage invocations made, in call order
    clock,              \* new Date(): the instant the reminder and task checks read
    reminders,          \* db.reminders: the stored reminders, in primary-key order
    indexedFalse,       \* whether the index on dismissed finds false under the key 0
    smartReminders,     \* createSmartReminders: the call made and the reminders returned
    reminderInterval,   \* reminders.ts: the module-level interval handle, 0 for null
    checks,             \* the checkReminders runs started, in order of start
    notified,           \* the reminder ids passed to onReminder, in order
    tasks,              \* db.tasks: the stored tasks, in primary-key order
    notifiedTaskReminders, \* tasks.ts: the module-level set of keys
    taskChecks,         \* the checkTaskReminders calls made and what they returned
    isLoading,          \* calendar store: the loading flag
    storeCalls,         \* the initialize / addEvent / updateEvent / deleteEvent calls made
    loads               \* the loadVisibleEvents calls made

conflictVars == <<events, conflicts, hasConflictResult, phase>>
habitVars == <<habits, calls, history, seeded>>
queryVars == <<avgDurationResult>>
finderVars == <<finderEvents, finderArgs, freeSlots, nextSlot, finderPhase>>
scorerVars == <<scorerArgs, suggestions, scorerPhase>>
storeVars == <<dbEvents, currentDate, view, visibleEvents, storeConflicts>>
chatVars == <<conversationHistory, sends>>
reminderVars == <<clock, reminders, indexedFalse, smartReminders, reminderInterval,
                  checks, notified>>
taskVars == <<tasks, notifiedTaskReminders, taskChecks>>
asyncVars == <<isLoading, storeCalls, loads>>
lastVars == <<reminderVars, taskVars, asyncVars>>
laterVars == <<queryVars, finderVars, scorerVars, storeVars, chatVars, lastVars>>
vars == <<conflictVars, habitVars, laterVars>>

----------------------------------------------------------------------------
(* Bounds of the conflict-detector inputs *)

MaxEvents == 4
MaxTime == 2

(* Bounds of the habit learner: events learned in one run, weekly events  *)
(* learned in earlier sessions, learnFromEvent invocations in flight      *)

MaxLearn == 4
SeedLen == 9
MaxCalls == 2

Range(s) == {s[i] : i \in DOMAIN s}

Min(a, b) == IF a <= b THEN a ELSE b
Max(a, b) == IF a >= b THEN a ELSE b

----------------------------------------------------------------------------
(* services/scheduler/conflicts.ts *)

\* The shapes an input event can take: a timed event on any interval with
\* start <= end (start = end is a zero-duration event; the callers keep end
\* from preceding start), or an all-day event, which spans the whole day.
EventShapes ==
    {sh \in [start : 0..MaxTime, end : 0..MaxTime, allDay : {FALSE}] : sh.start <= sh.end}
        \cup {[start |-> 0, end |-> MaxTime, allDay |-> TRUE]}

\* Event lists: ids are unique; the id of an event is its position in the input.
WithIds(shapes) ==
    [i \in DOMAIN shapes |->
        [id |-> i, start |-> shapes[i].start, end |-> shapes[i].end,
         allDay |-> shapes[i].allDay]]

\* date-fns 3 areIntervalsOverlapping, default (non-inclusive) mode: both
\* intervals are put in order first, then compared strictly.
areIntervalsOverlappingTouching(leftStart, leftEnd, rightStart, rightEnd) ==
    /\ Min(leftStart, leftEnd) <= Max(rightStart, rightEnd)
    /\ Min(rightStart, rightEnd) <= Max(leftStart, leftEnd)

areIntervalsOverlapping(leftStart, leftEnd, rightStart, rightEnd) ==
    /\ Min(leftStart, leftEnd) < Max(rightStart, rightEnd)
    /\ Min(rightStart, rightEnd) < Max(leftStart, leftEnd)

\* Array.prototype.sort with (a, b) => a.start - b.start: a stable sort.
RECURSIVE InsertByStart(_, _)
InsertByStart(sorted, e) ==
    IF sorted = <<>> THEN <<e>>
    ELSE IF Head(sorted).start <= e.start
         THEN <<Head(sorted)>> \o InsertByStart(Tail(sorted), e)
         ELSE <<e>> \o sorted

RECURSIVE SortByStart(_)
SortByStart(s) ==
    IF s = <<>> THEN <<>>
    ELSE InsertByStart(SortByStart(SubSeq(s, 1, Len(s) - 1)), s[Len(s)])

\* lines 9-11: the non-all-day events, sorted by start
sortedEventsKeepAllDay(evs) == SortByStart(evs)

sortedEvents(evs) == SortByStart(SelectSeq(evs, LAMBDA e : ~e.allDay))

\* conflictMap: a Map<string, Set<string>>, kept as the sequence of its entries
\* in insertion order, each Set as the sequence of its members in insertion order.
MapHas(map, key) == \E k \in DOMAIN map : map[k].key = key

MapGet(map, key) ==
    IF MapHas(map, key)
    THEN map[CHOOSE k \in DOMAIN map : map[k].key = key].related
    ELSE <<>>

SetAdd(members, x) == IF x \in Range(members) THEN members ELSE Append(members, x)

MapEnsure(map, key) ==
    IF MapHas(map, key) THEN map ELSE Append(map, [key |-> key, related |-> <<>>])

MapAddTo(map, key, x) ==
    [k \in DOMAIN map |->
        IF map[k].key = key
        THEN [key |-> key, related |-> SetAdd(map[k].related, x)]
        ELSE map[k]]

\* lines 30-37
Link(map, a, b) ==
    MapAddTo(MapAddTo(MapEnsure(MapEnsure(map, a), b), a, b), b, a)

\* lines 14-40: the pairwise scan, i < j in loop order
RECURSIVE PairLoop(_, _, _, _)
PairLoop(sorted, i, j, map) ==
    IF i > Len(sorted) THEN map
    ELSE IF j > Len(sorted) THEN PairLoop(sorted, i + 1, i + 2, map)
    ELSE PairLoop(sorted, i, j + 1,
            IF areIntervalsOverlapping(sorted[i].start, sorted[i].end,
                                       sorted[j].start, sorted[j].end)
            THEN Link(map, sorted[i].id, sorted[j].id)
            ELSE map)

\* lines 50-63 without the queue: only the direct neighbours are collected
TraverseDirectOnly(map, queue, allRelatedEvents) ==
    IF queue = <<>> THEN allRelatedEvents
    ELSE allRelatedEvents \o MapGet(map, Head(queue))

\* lines 48-63: breadth-first traversal from one event id
RECURSIVE Traverse(_, _, _)
Traverse(map, queue, allRelatedEvents) ==
    IF queue = <<>> THEN allRelatedEvents
    ELSE LET related == MapGet(map, Head(queue))
             fresh == SelectSeq(related, LAMBDA r : r \notin Range(allRelatedEvents))
         IN Traverse(map, Tail(queue) \o fresh, allRelatedEvents \o fresh)

\* line 70
severityOffByOne(eventCount) ==
    IF eventCount > 4 THEN "high" ELSE IF eventCount > 3 THEN "medium" ELSE "low"

severityOf(eventCount) ==
    IF eventCount > 3 THEN "high" ELSE IF eventCount > 2 THEN "medium" ELSE "low"

\* line 75
typeOf(eventCount) == IF eventCount > 2 THEN "overbooking" ELSE "overlap"

\* lines 45-78: one Conflict per unprocessed key of the map.  The id is
\* `conflict-${Date.now()}-${conflicts.length}`; its index part is kept.
RECURSIVE GroupLoop(_, _, _, _)
GroupLoop(map, k, processedEvents, acc) ==
    IF k > Len(map) THEN acc
    ELSE IF map[k].key \in processedEvents
         THEN GroupLoop(map, k + 1, processedEvents, acc)
         ELSE LET allRelatedEvents == Traverse(map, <<map[k].key>>, <<map[k].key>>)
                  eventCount == Len(allRelatedEvents)
              IN GroupLoop(map, k + 1, processedEvents \cup Range(allRelatedEvents),
                    Append(acc, [id |-> Len(acc),
                                 events |-> allRelatedEvents,
                                 type |-> typeOf(eventCount),
                                 severity |-> severityOf(eventCount)]))

\* lines 4-81
detectConflicts(evs) ==
    GroupLoop(PairLoop(sortedEvents(evs), 1, 2, <<>>), 1, {}, <<>>)

\* lines 111-127
hasConflict(newEvent, existingEvents) ==
    \E k \in DOMAIN existingEvents :
        /\ ~existingEvents[k].allDay
        /\ areIntervalsOverlapping(newEvent.start, newEvent.end,
                                   existingEvents[k].start, existingEvents[k].end)

Without(s, k) == SubSeq(s, 1, k - 1) \o SubSeq(s, k + 1, Len(s))

NoCall == [newEvent |-> 0, result |-> FALSE]

----------------------------------------------------------------------------
(* services/storage/habits.ts, services/storage/db.ts *)

\* An instant: seconds from Sunday 00:00 of week 0.
At(week, day, hour, minute, second) ==
    (((week * 7 + day) * 24 + hour) * 60 + minute) * 60 + second

\* date-fns getDay / getHours / getMinutes
getDay(t) == (t \div 86400) % 7
getHours(t) == (t \div 3600) % 24
getMinutes(t) == (t \div 60) % 60

\* date-fns differenceInMinutes: the difference in whole minutes, truncated
\* toward zero.
differenceInMinutes(later, earlier) ==
    IF later >= earlier THEN (later - earlier) \div 60
    ELSE -((earlier - later) \div 60)

\* Math.round(p / q) for q > 0: the nearest integer, halves rounded up.
MathRound(p, q) == (2 * p + q) \div (2 * q)

\* Date.prototype.toISOString and new Date(isoString): the instant written as
\* date and time of day, and read back.
toISOString(t) ==
    [date |-> t \div 86400, hh |-> (t \div 3600) % 24,
     mm |-> (t \div 60) % 60, ss |-> t % 60]

parseISO(str) == ((str.date * 24 + str.hh) * 60 + str.mm) * 60 + str.ss

\* db.ts toStoredHabit / fromStoredHabit (createdAt and updatedAt are not kept
\* in the model: nothing reads them)
toStoredHabit(habit) ==
    [habit EXCEPT !.lastOccurrences =
        [k \in DOMAIN habit.lastOccurrences |-> toISOString(habit.lastOccurrences[k])]]

fromStoredHabit(stored) ==
    [stored EXCEPT !.lastOccurrences =
        [k \in DOMAIN stored.lastOccurrences |-> parseISO(stored.lastOccurrences[k])]]

Undefined == "undefined"

EventCategory == {"work", "personal", "health", "social", "learning", "other"}

\* habits.ts line 65: event.category || 'other'
categoryOf(event) == IF event.category = Undefined THEN "other" ELSE event.category

\* habits.ts lines 68-72
eventTimeSlot(event) ==
    [dayOfWeek |-> getDay(event.start),
     hour |-> getHours(event.start),
     minute |-> getMinutes(event.start)]

\* habits.ts lines 27-30: db.habits.where('category').equals(category).first();
\* a result that may be undefined is a sequence of at most one element
getHabitByCategory(table, category) ==
    IF \E k \in DOMAIN table : table[k].category = category
    THEN <<fromStoredHabit(
              table[CHOOSE k \in DOMAIN table :
                      /\ table[k].category = category
                      /\ \A j \in 1..(k - 1) : table[j].category # category])>>
    ELSE <<>>

Abs(x) == IF x < 0 THEN -x ELSE x

\* habits.ts lines 106-109
isSimilar(slot, newSlot) ==
    /\ slot.dayOfWeek = newSlot.dayOfWeek
    /\ Abs(slot.hour - newSlot.hour) <= 1

\* Array.prototype.slice(-n): the last n elements
SliceLast(s, n) == IF Len(s) <= n THEN s ELSE SubSeq(s, Len(s) - n + 1, Len(s))

\* habits.ts lines 104-128
updatePreferredTimesAppending(existing, newSlot) ==
    IF \E k \in DOMAIN existing : isSimilar(existing[k], newSlot)
    THEN LET similarIndex == CHOOSE k \in DOMAIN existing :
                                /\ isSimilar(existing[k], newSlot)
                                /\ \A j \in 1..(k - 1) : ~isSimilar(existing[j], newSlot)
             similar == existing[similarIndex]
         IN SliceLast(Append(existing,
                [similar EXCEPT !.hour = MathRound(similar.hour + newSlot.hour, 2),
                                !.minute = MathRound(similar.minute + newSlot.minute, 2)]), 5)
    ELSE SliceLast(Append(existing, newSlot), 5)

updatePreferredTimes(existing, newSlot) ==
    IF \E k \in DOMAIN existing : isSimilar(existing[k], newSlot)
    THEN LET similarIndex == CHOOSE k \in DOMAIN existing :
                                /\ isSimilar(existing[k], newSlot)
                                /\ \A j \in 1..(k - 1) : ~isSimilar(existing[j], newSlot)
             similar == existing[similarIndex]
         IN [existing EXCEPT ![similarIndex] =
                [similar EXCEPT !.hour = MathRound(similar.hour + newSlot.hour, 2),
                                !.minute = MathRound(similar.minute + newSlot.minute, 2)]]
    ELSE SliceLast(Append(existing, newSlot), 5)

\* habits.ts line 78
newOccurrencesKeepFirst(habit, event) ==
    SubSeq(Append(habit.lastOccurrences, event.start), 1,
           Min(10, Len(habit.lastOccurrences) + 1))

newOccurrencesPrepend(habit, event) ==
    SliceLast(<<event.start>> \o habit.lastOccurrences, 10)

newOccurrences(habit, event) ==
    SliceLast(Append(habit.lastOccurrences, event.start), 10)

\* habits.ts lines 80-82
newAvgDurationUnweighted(habit, duration) == MathRound(habit.avgDuration + duration, 2)

newAvgDuration(habit, duration) ==
    MathRound(habit.avgDuration * habit.eventCount + duration, habit.eventCount + 1)

\* habits.ts line 88
newEventCountStuck(habit) == habit.eventCount

newEventCount(habit) == habit.eventCount + 1

\* habits.ts lines 78-89: the updates learnFromEvent passes to updateHabit
habitUpdates(habit, event) ==
    [preferredTimes |-> updatePreferredTimes(habit.preferredTimes, eventTimeSlot(event)),
     avgDuration |-> newAvgDuration(habit, differenceInMinutes(event.end, event.start)),
     lastOccurrences |-> newOccurrences(habit, event),
     eventCount |-> newEventCount(habit)]

\* habits.ts lines 92-99: the pattern learnFromEvent passes to createHabit
firstHabit(event) ==
    [category |-> categoryOf(event),
     preferredTimes |-> <<eventTimeSlot(event)>>,
     avgDuration |-> differenceInMinutes(event.end, event.start),
     frequency |-> "weekly",
     lastOccurrences |-> <<event.start>>,
     eventCount |-> 1]

\* habits.ts lines 7-18: createHabit; generateId() is a fresh key, later keys
\* sorting after earlier ones
createHabit(table, habit) ==
    Append(table,
        toStoredHabit([id |-> Len(table) + 1,
                       category |-> habit.category,
                       preferredTimes |-> habit.preferredTimes,
                       avgDuration |-> habit.avgDuration,
                       frequency |-> habit.frequency,
                       lastOccurrences |-> habit.lastOccurrences,
                       eventCount |-> habit.eventCount]))

\* habits.ts line 40: db.habits.get(id)
getStored(table, id) ==
    IF \E k \in DOMAIN table : table[k].id = id
    THEN <<table[CHOOSE k \in DOMAIN table : table[k].id = id]>>
    ELSE <<>>

\* habits.ts lines 43-50: { ...fromStoredHabit(existing), ...updates, id } put back
putMerged(table, existing, updates) ==
    LET updated == [fromStoredHabit(existing) EXCEPT
                        !.preferredTimes = updates.preferredTimes,
                        !.avgDuration = updates.avgDuration,
                        !.lastOccurrences = updates.lastOccurrences,
                        !.eventCount = updates.eventCount]
    IN IF \E k \in DOMAIN table : table[k].id = updated.id
       THEN [k \in DOMAIN table |->
                IF table[k].id = updated.id THEN toStoredHabit(updated) ELSE table[k]]
       ELSE Append(table, toStoredHabit(updated))

\* habits.ts lines 39-52: updateHabit
updateHabit(table, id, updates) ==
    IF getStored(table, id) = <<>> THEN table
    ELSE putMerged(table, getStored(table, id)[1], updates)

\* habits.ts lines 64-101: learnFromEvent run to completion with no other
\* call in between
learnFromEvent(table, event) ==
    LET habit == getHabitByCategory(table, categoryOf(event))
    IN IF habit # <<>>
       THEN updateHabit(table, habit[1].id, habitUpdates(habit[1], event))
       ELSE createHabit(table, firstHabit(event))

RECURSIVE learnAll(_, _)
learnAll(table, evs) ==
    IF evs = <<>> THEN table
    ELSE learnAll(learnFromEvent(table, Head(evs)), Tail(evs))

\* The events a run can create (start, end, category).  The weekly events of
\* earlier sessions are on Monday 09:00 and Thursday 09:00 in turn, in weeks
\* 1, 2, ...; the events of the run lie in week 0 (before all of them) or in
\* week 20 (after all of them).
Event(start, minutes, seconds, category) ==
    [start |-> start, end |-> start + minutes * 60 + seconds, category |-> category]

EventPool ==
    { Event(At(0, 2, 9, 0, 0), 30, 0, "work"),
      Event(At(0, 3, 14, 0, 0), 31, 0, "work"),
      Event(At(0, 1, 11, 0, 0), 60, 0, "work"),
      Event(At(20, 5, 9, 0, 0), 45, 30, "work"),
      Event(At(20, 1, 10, 30, 0), 31, 0, "work"),
      Event(At(20, 6, 9, 0, 0), 30, 0, Undefined),
      Event(At(0, 2, 11, 0, 0), 60, 0, "other") }

SeedEvents(n) ==
    [k \in 1..n |-> Event(At(k, IF k % 2 = 1 THEN 1 ELSE 4, 9, 0, 0), 30, 0, "work")]

ConflictIdle ==
    /\ events = <<>>
    /\ conflicts = <<>>
    /\ hasConflictResult = NoCall
    /\ phase = "ready"

\* The database as earlier sessions left it: empty, or holding the pattern
\* learned from SeedLen weekly events.
HabitInit ==
    /\ \E n \in {0, SeedLen} :
          /\ habits = learnAll(<<>>, SeedEvents(n))
          /\ history = SeedEvents(n)
          /\ seeded = n
    /\ calls = <<>>

QueryIdle == avgDurationResult = <<>>

NoArgs == [startDate |-> 0, endDate |-> 0,
           workingHours |-> [start |-> <<0, 0>>, end |-> <<0, 0>>], minDuration |-> 0]

FinderIdle ==
    /\ finderEvents = <<>>
    /\ finderArgs = NoArgs
    /\ freeSlots = <<>>
    /\ nextSlot = <<>>
    /\ finderPhase = "idle"

NoScorerArgs == [freeSlots |-> <<>>, desiredDuration |-> 0, habits |-> <<>>,
                 category |-> Undefined]

ScorerIdle ==
    /\ scorerArgs = NoScorerArgs
    /\ suggestions = <<>>
    /\ scorerPhase = "idle"

\* calendarStore.ts lines 84-92, 94-95: the store as created.  Day 0 of the
\* time axis is Sunday 1 February 2026; new Date() is Wednesday 8 April 2026,
\* 10:00.
Today == At(9, 3, 10, 0, 0)

StoreCreated ==
    /\ dbEvents = <<>>
    /\ currentDate = Today
    /\ view = "month"
    /\ visibleEvents = <<>>
    /\ storeConflicts = <<>>

\* claude.ts line 425: the history as the module is loaded
ChatIdle ==
    /\ conversationHistory = <<>>
    /\ sends = <<>>

\* reminders.ts line 196, tasks.ts line 7, calendarStore.ts line 102: the
\* modules as loaded, on an empty database
ReminderIdle ==
    /\ clock = 0
    /\ reminders = <<>>
    /\ indexedFalse = FALSE
    /\ smartReminders = <<>>
    /\ reminderInterval = 0
    /\ checks = <<>>
    /\ notified = <<>>

TaskIdle ==
    /\ tasks = <<>>
    /\ notifiedTaskReminders = {}
    /\ taskChecks = <<>>

AsyncIdle ==
    /\ isLoading = FALSE
    /\ storeCalls = <<>>
    /\ loads = <<>>

LastIdle == ReminderIdle /\ TaskIdle /\ AsyncIdle

LaterIdle ==
    QueryIdle /\ FinderIdle /\ ScorerIdle /\ StoreCreated /\ ChatIdle /\ LastIdle

----------------------------------------------------------------------------
(* The conflict detector applied to an event list *)

\* The caller holds an arbitrary event list.
Init ==
    /\ \E n \in 0..MaxEvents : \E shapes \in [1..n -> EventShapes] :
          events = WithIds(shapes)
    /\ conflicts = <<>>
    /\ hasConflictResult = NoCall
    /\ phase = "ready"
    /\ habits = <<>>
    /\ calls = <<>>
    /\ history = <<>>
    /\ seeded = 0
    /\ LaterIdle

\* detectConflicts(events)
DetectConflicts ==
    /\ phase = "ready"
    /\ conflicts' = detectConflicts(events)
    /\ phase' = "detected"
    /\ UNCHANGED <<events, hasConflictResult, habitVars, laterVars>>

\* hasConflict(events[1], the other events): a candidate checked against the
\* rest.  Event lists come in every order, so any event can be the candidate.
HasConflict ==
    /\ phase = "detected"
    /\ events # <<>>
    /\ hasConflictResult' =
          [newEvent |-> 1, result |-> hasConflict(events[1], Without(events, 1))]
    /\ phase' = "checked"
    /\ UNCHANGED <<events, conflicts, habitVars, laterVars>>

Next ==
    \/ DetectConflicts
    \/ HasConflict

Spec == Init /\ [][Next]_vars

----------------------------------------------------------------------------
(* learnFromEvent, each call completed before the next starts *)

LearnInit == ConflictIdle /\ HabitInit /\ LaterIdle

LearnFromEvent(e) ==
    /\ Len(history) - seeded < MaxLearn
    /\ habits' = learnFromEvent(habits, e)
    /\ history' = Append(history, e)
    /\ UNCHANGED <<calls, seeded, conflictVars, laterVars>>

LearnNext == \E e \in EventPool : LearnFromEvent(e)

LearnSpec == LearnInit /\ [][LearnNext]_vars

----------------------------------------------------------------------------
(* learnFromEvent invocations in flight together, as when the store's      *)
(* addEvent (calendarStore.ts line 223) is invoked again before an earlier *)
(* invocation has finished: every await is a point where another           *)
(* invocation can run.                                                     *)

AddEventInit == ConflictIdle /\ HabitInit /\ LaterIdle

\* habits.ts lines 64-66: the call is made and waits for getHabitByCategory
CallLearnFromEvent(e) ==
    /\ Len(calls) < MaxCalls
    /\ calls' = Append(calls, [pc |-> "getHabitByCategory", event |-> e,
                               habit |-> <<>>, existing |-> <<>>])
    /\ UNCHANGED <<habits, history, seeded, conflictVars, laterVars>>

\* habits.ts lines 66-76, 84, 92: the read resolves; updateHabit or createHabit
\* is entered
GetHabitByCategory(c) ==
    /\ calls[c].pc = "getHabitByCategory"
    /\ LET habit == getHabitByCategory(habits, categoryOf(calls[c].event))
       IN calls' = [calls EXCEPT ![c].habit = habit,
                                 ![c].pc = IF habit # <<>> THEN "updateHabit.get"
                                           ELSE "createHabit.add"]
    /\ UNCHANGED <<habits, history, seeded, conflictVars, laterVars>>

\* habits.ts lines 40-41: db.habits.get(id) resolves
UpdateHabitGet(c) ==
    /\ calls[c].pc = "updateHabit.get"
    /\ LET existing == getStored(habits, calls[c].habit[1].id)
       IN /\ calls' = [calls EXCEPT ![c].existing = existing,
                                    ![c].pc = IF existing # <<>> THEN "updateHabit.put"
                                              ELSE "done"]
          /\ history' = IF existing # <<>> THEN history
                        ELSE Append(history, calls[c].event)
    /\ UNCHANGED <<habits, seeded, conflictVars, laterVars>>

\* habits.ts lines 43-51: db.habits.put resolves
UpdateHabitPut(c) ==
    /\ calls[c].pc = "updateHabit.put"
    /\ habits' = putMerged(habits, calls[c].existing[1],
                           habitUpdates(calls[c].habit[1], calls[c].event))
    /\ calls' = [calls EXCEPT ![c].pc = "done"]
    /\ history' = Append(history, calls[c].event)
    /\ UNCHANGED <<seeded, conflictVars, laterVars>>

\* habits.ts lines 9-17: db.habits.add resolves
CreateHabitAdd(c) ==
    /\ calls[c].pc = "createHabit.add"
    /\ habits' = createHabit(habits, firstHabit(calls[c].event))
    /\ calls' = [calls EXCEPT ![c].pc = "done"]
    /\ history' = Append(history, calls[c].event)
    /\ UNCHANGED <<seeded, conflictVars, laterVars>>

AddEventNext ==
    \/ \E e \in EventPool : CallLearnFromEvent(e)
    \/ \E c \in DOMAIN calls : GetHabitByCategory(c)
    \/ \E c \in DOMAIN calls : UpdateHabitGet(c)
    \/ \E c \in DOMAIN calls : UpdateHabitPut(c)
    \/ \E c \in DOMAIN calls : CreateHabitAdd(c)

AddEventSpec == AddEventInit /\ [][AddEventNext]_vars

----------------------------------------------------------------------------
(* Properties of the conflict detector *)

\* The overlap relation as the specification states it: strict on both sides.
StrictOverlap(a, b) == a.start < b.end /\ b.start < a.end

Timed == {i \in DOMAIN events : ~events[i].allDay}

\* The connected component of a set of timed events in the strict-overlap graph.
RECURSIVE Component(_)
Component(set) ==
    LET grown == set \cup {j \in Timed :
                     \E i \in set : StrictOverlap(events[i], events[j])}
    IN IF grown = set THEN set ELSE Component(grown)

Components == {Component({i}) : i \in Timed}

Groups == {Range(conflicts[c].events) : c \in DOMAIN conflicts}

Detected == phase = "detected"

\* C1: detectConflicts returns exactly one Conflict per connected component of
\* size >= 2 of the strict-overlap graph over the non-all-day events: directly
\* and transitively overlapping events share a Conflict, no id is in two
\* Conflicts (or twice in one), and an event that overlaps nothing is in none.
C1_OneConflictPerComponent ==
    Detected =>
        /\ Groups = {g \in Components : Cardinality(g) >= 2}
        /\ Len(conflicts) = Cardinality(Groups)
        /\ \A c \in DOMAIN conflicts :
              Len(conflicts[c].events) = Cardinality(Range(conflicts[c].events))

\* A Conflict that holds two events linked only through a third one, next to
\* an event that overlaps nothing.
C1_Witness ==
    /\ Detected
    /\ \E c \in DOMAIN conflicts : \E i, j \in Range(conflicts[c].events) :
          i # j /\ ~StrictOverlap(events[i], events[j])
    /\ \E i \in Timed : \A g \in Groups : i \notin g

\* C2: no Conflict contains an all-day event, and an all-day event links
\* nothing: two timed events share a Conflict only if they are connected
\* through overlapping timed events.
C2_AllDayExcluded ==
    Detected =>
        \A c \in DOMAIN conflicts :
            /\ \A i \in Range(conflicts[c].events) : ~events[i].allDay
            /\ \A i, j \in Range(conflicts[c].events) \cap Timed : j \in Component({i})

\* An all-day event spans two timed events that do not overlap; one of them
\* conflicts with a third event, and the two are still in no common Conflict.
C2_Witness ==
    /\ Detected
    /\ conflicts # <<>>
    /\ \E d \in DOMAIN events : \E i, j \in Timed :
          /\ events[d].allDay
          /\ i # j
          /\ events[i].start < events[i].end /\ events[j].start < events[j].end
          /\ events[d].start <= events[i].start /\ events[i].end <= events[d].end
          /\ events[d].start <= events[j].start /\ events[j].end <= events[d].end
          /\ \E g \in Groups : i \in g
          /\ \A g \in Groups : ~({i, j} \subseteq g)

Touching(a, b) == a.end = b.start \/ b.end = a.start

\* C3: events that only touch never conflict: two touching timed events that
\* overlap no other event are in no Conflict, and hasConflict of an event
\* against events that all merely touch it is false.
C3_TouchingNeverConflicts ==
    /\ Detected =>
          \A i, j \in Timed :
              ( /\ i # j
                /\ events[i].end = events[j].start
                /\ \A k \in Timed \ {i, j} :
                      /\ ~StrictOverlap(events[i], events[k])
                      /\ ~StrictOverlap(events[j], events[k]) )
              => \A g \in Groups : i \notin g /\ j \notin g
    /\ phase = "checked" =>
          ( (\A k \in DOMAIN events \ {hasConflictResult.newEvent} :
                events[hasConflictResult.newEvent].end = events[k].start)
            => ~hasConflictResult.result )

\* hasConflict(A, [B]) was called on two timed events of positive duration with
\* A.end = B.start.
C3_Witness ==
    /\ phase = "checked"
    /\ Len(events) = 2
    /\ Timed = {1, 2}
    /\ \A i \in Timed : events[i].start < events[i].end
    /\ \E k \in Timed \ {hasConflictResult.newEvent} :
          events[hasConflictResult.newEvent].end = events[k].start
    /\ conflicts = <<>>
    /\ ~hasConflictResult.result

\* C4: severity and type depend on the number of member events only:
\* 2 -> low / overlap, 3 -> medium / overbooking, >= 4 -> high / overbooking.
C4_SeverityBySize ==
    Detected =>
        \A c \in DOMAIN conflicts :
            LET n == Len(conflicts[c].events)
            IN /\ n >= 2
               /\ n = 2 => conflicts[c].severity = "low" /\ conflicts[c].type = "overlap"
               /\ n = 3 => conflicts[c].severity = "medium"
                              /\ conflicts[c].type = "overbooking"
               /\ n >= 4 => conflicts[c].severity = "high"
                              /\ conflicts[c].type = "overbooking"

\* A Conflict of exactly four events.
C4_Witness ==
    /\ Detected
    /\ \E c \in DOMAIN conflicts :
          Len(conflicts[c].events) = 4 /\ conflicts[c].severity = "high"

ZeroDuration == {i \in Timed : events[i].start = events[i].end}

\* C5 as stated: a zero-duration event is never a member of any Conflict.
C5_ZeroDurationInvisible ==
    Detected => \A z \in ZeroDuration : \A g \in Groups : z \notin g

\* C5, amended: a zero-duration event is a member of a Conflict exactly when
\* its instant lies strictly inside the interval of another non-all-day event;
\* at an endpoint of another event, or at the instant of another zero-duration
\* event, it conflicts with nothing.
C5_ZeroDurationInsideOnly ==
    Detected =>
        \A z \in ZeroDuration :
            (\E g \in Groups : z \in g)
                <=> \E k \in Timed : /\ events[k].start < events[z].start
                                     /\ events[z].start < events[k].end

\* One zero-duration event inside another event (in a Conflict), one at an
\* endpoint of an event (in none).
C5_Witness ==
    /\ Detected
    /\ \E z \in ZeroDuration : \E g \in Groups : z \in g
    /\ \E z \in ZeroDuration : \E k \in Timed :
          /\ events[k].start < events[k].end
          /\ events[z].start = events[k].end
          /\ \A g \in Groups : z \notin g

----------------------------------------------------------------------------
(* Properties of the habit learner *)

\* The category an event counts toward: its own, or 'other' when it has none.
CategoryKey(e) == IF e.category = Undefined THEN "other" ELSE e.category

\* The events learned for a category, in the order learned.
Learned(cat) == SelectSeq(history, LAMBDA e : CategoryKey(e) = cat)

Patterns(cat) == {k \in DOMAIN habits : habits[k].category = cat}

PatternOf(cat) == fromStoredHabit(habits[CHOOSE k \in Patterns(cat) : TRUE])

Minutes(e) == differenceInMinutes(e.end, e.start)

RECURSIVE SumMinutes(_)
SumMinutes(evs) == IF evs = <<>> THEN 0 ELSE Minutes(Head(evs)) + SumMinutes(Tail(evs))

Starts(evs) == [k \in DOMAIN evs |-> evs[k].start]

Chronological(instants) ==
    \A k \in 1..(Len(instants) - 1) : instants[k] <= instants[k + 1]

\* C6 as stated: at most one HabitPattern per category in every reachable
\* state, for any interleaving of the read and write steps of learnFromEvent
\* calls in flight together.
C6_OnePatternPerCategory ==
    \A cat \in EventCategory : Cardinality(Patterns(cat)) <= 1

\* C7: after N learnFromEvent calls for a category, each completed before the
\* next starts, the category has one pattern and its eventCount is N; events
\* without a category count toward 'other', and nothing is stored under any
\* other key.
C7_EventCountIsN ==
    /\ \A k \in DOMAIN habits : habits[k].category \in EventCategory
    /\ \A cat \in EventCategory :
          LET n == Len(Learned(cat))
          IN IF n = 0 THEN Patterns(cat) = {}
             ELSE /\ Cardinality(Patterns(cat)) = 1
                  /\ PatternOf(cat).eventCount = n

\* An event without category and an event of category 'other' were learned
\* in this run, and 'work' events were learned after those of earlier sessions.
C7_Witness ==
    /\ \E k \in DOMAIN history : history[k].category = Undefined
    /\ \E k \in DOMAIN history : history[k].category = "other"
    /\ Patterns("other") # {} /\ PatternOf("other").eventCount = 2
    /\ Patterns("work") # {} /\ PatternOf("work").eventCount = SeedLen + 2

\* C8 as stated: avgDuration equals the mean of the durations of all events
\* learned for the category, rounded to the nearest minute.
C8_AvgIsRoundedMean ==
    \A cat \in EventCategory :
        Learned(cat) # <<>> =>
            PatternOf(cat).avgDuration
                = MathRound(SumMinutes(Learned(cat)), Len(Learned(cat)))

\* The incremental update of the specification, applied event by event.
RECURSIVE IncrementalAvg(_)
IncrementalAvg(evs) ==
    IF Len(evs) = 1 THEN Minutes(evs[1])
    ELSE LET n == Len(evs) - 1
         IN MathRound(IncrementalAvg(SubSeq(evs, 1, n)) * n + Minutes(evs[n + 1]), n + 1)

\* C8, amended: avgDuration is the value of the incremental update
\* round((oldAvg * oldCount + d) / (oldCount + 1)) applied event by event; it
\* equals the rounded mean of all durations while at most two events have been
\* learned, and after N events differs from the true mean by at most
\* (N(N+1) - 2) / (4N) minutes.
C8_AvgIsIncremental ==
    \A cat \in EventCategory :
        Learned(cat) # <<>> =>
            LET n == Len(Learned(cat))
                sum == SumMinutes(Learned(cat))
                avg == PatternOf(cat).avgDuration
            IN /\ avg = IncrementalAvg(Learned(cat))
               /\ n <= 2 => avg = MathRound(sum, n)
               /\ 4 * Abs(n * avg - sum) <= n * (n + 1) - 2

\* A pattern whose avgDuration has drifted from the rounded mean.
C8_Witness ==
    \E cat \in EventCategory :
        /\ Len(Learned(cat)) >= 3
        /\ PatternOf(cat).avgDuration
              # MathRound(SumMinutes(Learned(cat)), Len(Learned(cat)))

C9_Bounds ==
    \A k \in DOMAIN habits :
        /\ Len(habits[k].preferredTimes) <= 5
        /\ Len(habits[k].lastOccurrences) <= 10

\* What a learnFromEvent call does to a full list: the first (oldest) entry
\* goes, the others keep their order, the new entry is last.
C9_DropsOldest ==
    \A k \in DOMAIN habits :
        (k \in DOMAIN habits' /\ habits'[k] # habits[k]) =>
            LET old == fromStoredHabit(habits[k])
                new == fromStoredHabit(habits'[k])
                e == history'[Len(history')]
            IN /\ Len(old.lastOccurrences) = 10 =>
                    new.lastOccurrences = Append(Tail(old.lastOccurrences), e.start)
               /\ ( /\ Len(old.preferredTimes) = 5
                    /\ \A j \in DOMAIN old.preferredTimes :
                          ~isSimilar(old.preferredTimes[j], eventTimeSlot(e)) )
                  => new.preferredTimes
                        = Append(Tail(old.preferredTimes), eventTimeSlot(e))

\* C9: in every state reachable by learnFromEvent calls preferredTimes has at
\* most 5 entries and lastOccurrences at most 10, and when a bound would be
\* exceeded the oldest entry is the one dropped.
C9_BoundedLists == [] C9_Bounds /\ [][C9_DropsOldest]_vars

\* Both lists of one pattern are full after entries were dropped: more than 10
\* events were learned, and the slot of the first events is no longer kept.
C9_Witness ==
    /\ seeded > 0
    /\ Patterns("work") # {}
    /\ LET h == PatternOf("work")
       IN /\ h.eventCount > 10
          /\ Len(h.lastOccurrences) = 10
          /\ h.lastOccurrences[1] # history[1].start
          /\ Len(h.preferredTimes) = 5
          /\ \A j \in DOMAIN h.preferredTimes :
                ~isSimilar(h.preferredTimes[j], eventTimeSlot(history[1]))

\* C10 as stated: lastOccurrences is in chronological (non-decreasing) order,
\* for events learned in any order of creation.
C10_Chronological ==
    \A k \in DOMAIN habits : Chronological(fromStoredHabit(habits[k]).lastOccurrences)

\* C10, amended: lastOccurrences holds the start instants of the last (up to)
\* 10 events learned for the category in the order in which they were learned,
\* the most recently learned last; it is chronological when the events were
\* learned in non-decreasing order of start.
C10_LearningOrder ==
    \A cat \in EventCategory :
        Learned(cat) # <<>> =>
            /\ PatternOf(cat).lastOccurrences = SliceLast(Starts(Learned(cat)), 10)
            /\ Chronological(Starts(Learned(cat)))
                  => Chronological(PatternOf(cat).lastOccurrences)

\* An event was learned whose start is earlier than the starts already
\* recorded: the list is not chronological.
C10_Witness ==
    \E cat \in EventCategory :
        /\ Len(Learned(cat)) >= 2
        /\ ~Chronological(PatternOf(cat).lastOccurrences)

\* An entry of preferredTimes the slot of a new event is merged into: same
\* day of the week, hours at most one apart.
Matches(entry, slot) ==
    /\ entry.dayOfWeek = slot.dayOfWeek
    /\ entry.hour - slot.hour \in {-1, 0, 1}

FirstMatch(list, slot) ==
    CHOOSE k \in DOMAIN list :
        /\ Matches(list[k], slot)
        /\ \A j \in 1..(k - 1) : ~Matches(list[j], slot)

\* What one learnFromEvent call does to the preferredTimes of a pattern that
\* exists already.
C21_MergeStep ==
    \A k \in DOMAIN habits :
        (k \in DOMAIN habits' /\ habits'[k] # habits[k]) =>
            LET old == habits[k].preferredTimes
                new == habits'[k].preferredTimes
                slot == eventTimeSlot(history'[Len(history')])
            IN IF \E j \in DOMAIN old : Matches(old[j], slot)
               THEN LET m == FirstMatch(old, slot)
                    IN /\ Len(new) = Len(old)
                       /\ \A j \in DOMAIN old : j # m => new[j] = old[j]
                       /\ new[m].dayOfWeek = old[m].dayOfWeek
                       /\ 2 * new[m].hour - (old[m].hour + slot.hour) \in {0, 1}
                       /\ 2 * new[m].minute - (old[m].minute + slot.minute) \in {0, 1}
               ELSE new = IF Len(old) < 5 THEN Append(old, slot)
                          ELSE Append(Tail(old), slot)

\* C21: a learnFromEvent call whose slot matches an entry of preferredTimes
\* keeps the length and the order of the list and changes only the first
\* matching entry, to the rounded midpoints of hour and minute; a call whose
\* slot matches no entry appends the slot and drops the oldest entry when
\* the list would exceed 5.
C21_MergeFirstOrAppend == [][C21_MergeStep]_vars

\* The slot of the last event learned matched two entries of the list: the
\* first one holds the midpoint (Monday 09:00 and 10:30 give 10:15) and the
\* second one (Monday 11:00) is as it was.
C21_Witness ==
    /\ seeded > 0
    /\ Len(history) > seeded + 1
    /\ history[Len(history)].start = At(20, 1, 10, 30, 0)
    /\ LET list == PatternOf("work").preferredTimes
       IN /\ list[1] = [dayOfWeek |-> 1, hour |-> 10, minute |-> 15]
          /\ \E j \in DOMAIN list : list[j] = [dayOfWeek |-> 1, hour |-> 11, minute |-> 0]

\* C30 as stated: after any sequence of learnFromEvent calls no two entries
\* of a pattern's preferredTimes have the same dayOfWeek and hours that
\* differ by at most 1.
C30_Deduplicated ==
    \A k \in DOMAIN habits :
        LET list == habits[k].preferredTimes
        IN \A i, j \in DOMAIN list :
              i # j => ~Matches(list[i], list[j])

----------------------------------------------------------------------------
(* The pure reads of habits.ts on the patterns learned so far *)

\* habits.ts lines 168-172: habit?.avgDuration || 60; the right operand is
\* taken when the left one is undefined or 0
getAvgDurationForCategory(table, category) ==
    LET habit == getHabitByCategory(table, category)
    IN IF habit = <<>> THEN 60
       ELSE IF habit[1].avgDuration = 0 THEN 60
       ELSE habit[1].avgDuration

\* The events created before the read: a zero-length one, one shorter than a
\* minute, and two of ordinary length.
QueryPool ==
    { Event(At(0, 2, 9, 0, 0), 0, 0, "personal"),
      Event(At(0, 3, 9, 0, 0), 0, 45, "health"),
      Event(At(0, 2, 10, 0, 0), 30, 0, "personal"),
      Event(At(0, 4, 9, 0, 0), 60, 0, "work") }

exceptQuery ==
    <<conflictVars, habitVars, finderVars, scorerVars, storeVars, chatVars, lastVars>>

QueryInit == ConflictIdle /\ HabitInit /\ LaterIdle

QueryLearn(e) ==
    /\ avgDurationResult = <<>>
    /\ LearnFromEvent(e)

GetAvgDurationForCategory(category) ==
    /\ avgDurationResult = <<>>
    /\ avgDurationResult' =
          <<[category |-> category,
             result |-> getAvgDurationForCategory(habits, category)]>>
    /\ UNCHANGED exceptQuery

QueryNext ==
    \/ \E e \in QueryPool : QueryLearn(e)
    \/ \E category \in EventCategory : GetAvgDurationForCategory(category)

QuerySpec == QueryInit /\ [][QueryNext]_vars

\* C11 as stated: getAvgDurationForCategory returns the stored avgDuration
\* whenever the category has a pattern (0 for a pattern learned only from
\* zero-length events), and 60 only when it has none.
C11_StoredAvgOrDefault ==
    \A q \in Range(avgDurationResult) :
        q.result = IF Patterns(q.category) = {} THEN 60
                   ELSE PatternOf(q.category).avgDuration

----------------------------------------------------------------------------
(* habits.ts: analyzeHabitFrequency *)

\* Array.prototype.sort((a, b) => a.getTime() - b.getTime())
RECURSIVE InsertInstant(_, _)
InsertInstant(sorted, t) ==
    IF sorted = <<>> THEN <<t>>
    ELSE IF t < Head(sorted) THEN <<t>> \o sorted
    ELSE <<Head(sorted)>> \o InsertInstant(Tail(sorted), t)

RECURSIVE sortInstants(_)
sortInstants(s) ==
    IF s = <<>> THEN <<>>
    ELSE InsertInstant(sortInstants(SubSeq(s, 1, Len(s) - 1)), s[Len(s)])

\* habits.ts lines 136-143: the sum of the gaps between successive
\* occurrences, in seconds (the code holds it in days)
RECURSIVE gapsSum(_, _)
gapsSum(occurrences, i) ==
    IF i > Len(occurrences) THEN 0
    ELSE (occurrences[i] - occurrences[i - 1]) + gapsSum(occurrences, i + 1)

\* habits.ts lines 131-148; avgGap <= 1.5 days is sum <= 1.5 * 86400 * gaps
analyzeHabitFrequency(table, habitId) ==
    LET stored == getStored(table, habitId)
    IN IF stored = <<>> THEN "weekly"
       ELSE IF Len(stored[1].lastOccurrences) < 2 THEN "weekly"
       ELSE LET occurrences == sortInstants(fromStoredHabit(stored[1]).lastOccurrences)
                gaps == Len(occurrences) - 1
                sum == gapsSum(occurrences, 2)
            IN IF 2 * sum <= 3 * 86400 * gaps THEN "daily"
               ELSE IF sum <= 10 * 86400 * gaps THEN "weekly"
               ELSE "monthly"

\* C23 as stated: the stored frequency is 'weekly' when the pattern is
\* created and, once three events of the category have been learned, equals
\* the frequency inferred from the average gap between its lastOccurrences.
C23_FrequencyFollowsGaps ==
    \A k \in DOMAIN habits :
        IF habits[k].eventCount >= 3
        THEN habits[k].frequency = analyzeHabitFrequency(habits, habits[k].id)
        ELSE habits[k].eventCount = 1 => habits[k].frequency = "weekly"

----------------------------------------------------------------------------
(* services/scheduler/suggestions.ts: findFreeSlots, findNextAvailableSlot *)

MaxFinderEvents == 2

\* date-fns on local time without daylight-saving changes
startOfDay(t) == t - (t % 86400)
setHours(t, h) == t - getHours(t) * 3600 + h * 3600
setMinutes(t, m) == t - getMinutes(t) * 60 + m * 60
addDays(t, n) == t + n * 86400
addMinutes(t, n) == t + n * 60
isBefore(a, b) == a < b
isAfter(a, b) == a > b

\* date-fns 3 isWithinInterval: the interval's ends are put in order, both
\* ends belong to it
isWithinInterval(t, start, end) == Min(start, end) <= t /\ t <= Max(start, end)

\* lines 47-55: the events of the day, sorted by start
dayEventsOf(evs, dayStart, dayEnd) ==
    SortByStart(SelectSeq(evs, LAMBDA e :
        /\ ~e.allDay
        /\ \/ isWithinInterval(e.start, dayStart, dayEnd)
           \/ isWithinInterval(e.end, dayStart, dayEnd)
           \/ (isBefore(e.start, dayStart) /\ isAfter(e.end, dayEnd))))

\* lines 70-77, 88-95: the slot pushed when it is long enough
slotIfLongEnough(start, end, minDuration) ==
    IF differenceInMinutes(end, start) >= minDuration
    THEN <<[start |-> start, end |-> end, duration |-> differenceInMinutes(end, start)]>>
    ELSE <<>>

\* lines 80-83: the cursor after an event
nextSlotStartAlways(effectiveEnd, slotStart) == effectiveEnd

nextSlotStart(effectiveEnd, slotStart) ==
    IF isAfter(effectiveEnd, slotStart) THEN effectiveEnd ELSE slotStart

\* lines 64-66: the event clamped to the working hours
effectiveStartOf(event, dayStart) ==
    IF isBefore(event.start, dayStart) THEN dayStart ELSE event.start

effectiveEndOf(event, dayEnd) ==
    IF isAfter(event.end, dayEnd) THEN dayEnd ELSE event.end

\* lines 58-96: the scan of one day
RECURSIVE scanDay(_, _, _, _, _)
scanDay(dayEvents, slotStart, dayStart, dayEnd, minDuration) ==
    IF dayEvents = <<>>
    THEN IF isBefore(slotStart, dayEnd)
         THEN slotIfLongEnough(slotStart, dayEnd, minDuration)
         ELSE <<>>
    ELSE LET event == Head(dayEvents)
             effectiveStart == effectiveStartOf(event, dayStart)
             effectiveEnd == effectiveEndOf(event, dayEnd)
             before == IF isBefore(slotStart, effectiveStart)
                       THEN slotIfLongEnough(slotStart, effectiveStart, minDuration)
                       ELSE <<>>
         IN before \o scanDay(Tail(dayEvents), nextSlotStart(effectiveEnd, slotStart),
                              dayStart, dayEnd, minDuration)

\* lines 36-37, 43-44: workingHours.start.split(':').map(Number); a "HH:mm"
\* string is the pair of its two numbers
dayStartOf(currentDay, workingHours) ==
    setMinutes(setHours(currentDay, workingHours.start[1]), workingHours.start[2])

dayEndOf(currentDay, workingHours) ==
    setMinutes(setHours(currentDay, workingHours.end[1]), workingHours.end[2])

\* lines 42-99: the loop over the days
RECURSIVE dayLoop(_, _, _, _, _)
dayLoop(currentDay, lastDay, evs, workingHours, minDuration) ==
    IF currentDay > lastDay THEN <<>>
    ELSE LET dayStart == dayStartOf(currentDay, workingHours)
             dayEnd == dayEndOf(currentDay, workingHours)
         IN scanDay(dayEventsOf(evs, dayStart, dayEnd), dayStart, dayStart, dayEnd,
                    minDuration)
            \o dayLoop(addDays(currentDay, 1), lastDay, evs, workingHours, minDuration)

\* lines 28-102
findFreeSlots(evs, startDate, endDate, workingHours, minDuration) ==
    dayLoop(startOfDay(startDate), startOfDay(endDate), evs, workingHours, minDuration)

\* lines 204-211: the first slot that fits, trimmed
firstFit(slots, duration) ==
    LET fits == SelectSeq(slots, LAMBDA slot : slot.duration >= duration)
    IN IF fits = <<>> THEN <<>>
       ELSE <<[start |-> Head(fits).start,
               end |-> addMinutes(Head(fits).start, duration),
               duration |-> duration]>>

\* lines 193-215; null is the empty sequence
findNextAvailableSlot(evs, duration, workingHours, startFrom) ==
    firstFit(findFreeSlots(evs, startFrom, addDays(startFrom, 14), workingHours, duration),
             duration)

\* The events passed to the finder (Monday of week 0 is the first day of the
\* range): before, across, inside and after the working hours, of zero
\* length, over several days, over the whole horizon, and all-day.
TimedEvent(start, end) == [start |-> start, end |-> end, allDay |-> FALSE]

FinderShapes ==
    { TimedEvent(At(0, 1, 8, 0, 0), At(0, 1, 8, 30, 0)),
      TimedEvent(At(0, 1, 8, 0, 0), At(0, 1, 9, 30, 0)),
      TimedEvent(At(0, 1, 9, 30, 0), At(0, 1, 10, 0, 0)),
      TimedEvent(At(0, 1, 9, 45, 0), At(0, 1, 10, 30, 30)),
      TimedEvent(At(0, 1, 10, 0, 0), At(0, 1, 10, 0, 0)),
      TimedEvent(At(0, 1, 10, 30, 0), At(0, 1, 12, 30, 0)),
      TimedEvent(At(0, 1, 8, 0, 0), At(0, 1, 12, 30, 0)),
      TimedEvent(At(0, 1, 9, 0, 0), At(0, 1, 11, 0, 0)),
      TimedEvent(At(0, 1, 11, 0, 0), At(0, 2, 9, 30, 0)),
      TimedEvent(At(0, 2, 9, 30, 0), At(0, 2, 10, 0, 0)),
      TimedEvent(At(0, 1, 8, 0, 0), At(2, 2, 13, 0, 0)),
      TimedEvent(At(0, 1, 11, 0, 0), At(2, 2, 13, 0, 0)),
      TimedEvent(At(0, 1, 12, 30, 0), At(0, 1, 13, 0, 0)),
      [start |-> At(0, 1, 0, 0, 0), end |-> At(0, 2, 0, 0, 0), allDay |-> TRUE] }

\* The other arguments: a range of one day or of two, working hours
\* 09:00-11:00 or 09:30-12:00, a minimum duration of 0, 30 or 90 minutes.
FinderArgs ==
    { [startDate |-> r[1], endDate |-> r[2], workingHours |-> wh, minDuration |-> d] :
        r \in { <<At(0, 1, 10, 0, 0), At(0, 1, 10, 0, 0)>>,
                <<At(0, 1, 15, 0, 0), At(0, 2, 8, 0, 0)>> },
        wh \in { [start |-> <<9, 0>>, end |-> <<11, 0>>],
                 [start |-> <<9, 30>>, end |-> <<12, 0>>] },
        d \in {0, 30, 90} }

exceptFinder ==
    <<conflictVars, habitVars, queryVars, scorerVars, storeVars, chatVars, lastVars>>

FinderInit ==
    /\ \E n \in 0..MaxFinderEvents : \E shapes \in [1..n -> FinderShapes] :
          finderEvents = shapes
    /\ finderArgs \in FinderArgs
    /\ freeSlots = <<>>
    /\ nextSlot = <<>>
    /\ finderPhase = "ready"
    /\ ConflictIdle
    /\ habits = <<>> /\ calls = <<>> /\ history = <<>> /\ seeded = 0
    /\ QueryIdle /\ ScorerIdle /\ StoreCreated /\ ChatIdle /\ LastIdle

\* findFreeSlots(events, startDate, endDate, workingHours, minDuration)
FindFreeSlots ==
    /\ finderPhase = "ready"
    /\ freeSlots' = findFreeSlots(finderEvents, finderArgs.startDate, finderArgs.endDate,
                                  finderArgs.workingHours, finderArgs.minDuration)
    /\ finderPhase' = "found"
    /\ UNCHANGED <<finderEvents, finderArgs, nextSlot, exceptFinder>>

\* findNextAvailableSlot(events, minDuration, workingHours, startDate)
FindNextAvailableSlot ==
    /\ finderPhase = "found"
    /\ nextSlot' = findNextAvailableSlot(finderEvents, finderArgs.minDuration,
                                         finderArgs.workingHours, finderArgs.startDate)
    /\ finderPhase' = "next"
    /\ UNCHANGED <<finderEvents, finderArgs, freeSlots, exceptFinder>>

FinderNext ==
    \/ FindFreeSlots
    \/ FindNextAvailableSlot

FinderSpec == FinderInit /\ [][FinderNext]_vars

----------------------------------------------------------------------------
(* Properties of the free-slot finder *)

\* The days of a range, from the day of its first instant through the day of
\* its last.
DaysOf(startDate, endDate) ==
    {d \in {startOfDay(startDate) + k * 86400 : k \in 0..15} : d <= startOfDay(endDate)}

WindowStart(day) == day + finderArgs.workingHours.start[1] * 3600
                        + finderArgs.workingHours.start[2] * 60

WindowEnd(day) == day + finderArgs.workingHours.end[1] * 3600
                      + finderArgs.workingHours.end[2] * 60

\* The events that take time: not all-day, of positive length.
Busy(evs) == {e \in Range(evs) : ~e.allDay /\ e.start < e.end}

\* [a, b] is a maximal part of the day's working window that no event of
\* busy covers.
MaximalFree(busy, day, a, b) ==
    /\ WindowStart(day) <= a /\ a < b /\ b <= WindowEnd(day)
    /\ \A e \in busy : ~(e.start < b /\ a < e.end)
    /\ a = WindowStart(day) \/ \E e \in busy : e.start < a /\ a <= e.end
    /\ b = WindowEnd(day) \/ \E e \in busy : e.start <= b /\ b < e.end

Endpoints(evs, day) ==
    {WindowStart(day), WindowEnd(day)}
        \cup {e.start : e \in Range(evs)} \cup {e.end : e \in Range(evs)}

\* The free time of at least minutes minutes in the days given, as the set of
\* its maximal intervals.
FreeTime(evs, days, minutes) ==
    {ab \in UNION {Endpoints(evs, day) \X Endpoints(evs, day) : day \in days} :
        /\ \E day \in days : MaximalFree(Busy(evs), day, ab[1], ab[2])
        /\ ab[2] - ab[1] >= minutes * 60}

Intervals(slots) == {<<slots[k].start, slots[k].end>> : k \in DOMAIN slots}

InOrder(slots) ==
    \A i, j \in DOMAIN slots : i < j => slots[i].end <= slots[j].start

Found == finderPhase \in {"found", "next"}

\* C12: for events of positive duration, findFreeSlots returns, for each day
\* of the range, exactly the maximal parts of the working window that no
\* non-all-day event covers and that last at least minDuration, in
\* chronological order.
C12_MaximalFreeIntervals ==
    (Found /\ \A e \in Range(finderEvents) : e.allDay \/ e.start < e.end) =>
        /\ Intervals(freeSlots) =
              FreeTime(finderEvents, DaysOf(finderArgs.startDate, finderArgs.endDate),
                       finderArgs.minDuration)
        /\ InOrder(freeSlots)
        /\ Len(freeSlots) = Cardinality(Intervals(freeSlots))

\* An event across the start of the working hours is clamped, an all-day
\* event removes nothing, and slots of two days are returned.
C12_Witness ==
    /\ Found
    /\ \A e \in Range(finderEvents) : e.allDay \/ e.start < e.end
    /\ \E e \in Range(finderEvents) : e.allDay
    /\ \E e \in Range(finderEvents) : \E k \in DOMAIN freeSlots :
          /\ ~e.allDay
          /\ e.start < WindowStart(startOfDay(e.start))
          /\ freeSlots[k].start = e.end
    /\ \E i, j \in DOMAIN freeSlots :
          startOfDay(freeSlots[i].start) # startOfDay(freeSlots[j].start)

Inside(slots, t) == \E k \in DOMAIN slots : slots[k].start <= t /\ t <= slots[k].end

\* The instants that stand for all instants of a slot: its ends, the ends of
\* events and working hours within it, and the second after each of them.
InstantsOf(slot, evs) ==
    LET marks == {slot.start, slot.end}
                    \cup {t \in UNION {Endpoints(evs, day) :
                                day \in DaysOf(slot.start, slot.end)} :
                            slot.start <= t /\ t <= slot.end}
    IN marks \cup {t + 1 : t \in {m \in marks : m < slot.end}}

\* C13 as stated: a zero-duration event consumes no free time: every instant
\* inside a slot that findFreeSlots returns without the event is inside a
\* slot that it returns with the event, for every minDuration.
C13_ZeroDurationConsumesNothing ==
    Found =>
        \A z \in DOMAIN finderEvents :
            (~finderEvents[z].allDay /\ finderEvents[z].start = finderEvents[z].end) =>
                \A slot \in Range(findFreeSlots(Without(finderEvents, z),
                                      finderArgs.startDate, finderArgs.endDate,
                                      finderArgs.workingHours, finderArgs.minDuration)) :
                    \A t \in InstantsOf(slot, finderEvents) : Inside(freeSlots, t)

\* The first interval of a non-empty set of intervals.
Earliest(intervals) ==
    CHOOSE ab \in intervals : \A cd \in intervals : ab[1] <= cd[1]

C27_NotBeforeStartFrom ==
    finderPhase = "next" =>
        \A slot \in Range(nextSlot) : slot.start >= finderArgs.startDate

----------------------------------------------------------------------------
(* services/scheduler/suggestions.ts: suggestBestTimes.  Scores are kept  *)
(* in hundredths (0.5 is 50, 1 is 100).                                    *)

MaxSlots == 3

\* habits.ts lines 33-36: getAllHabits
getAllHabits(table) == [k \in DOMAIN table |-> fromStoredHabit(table[k])]

\* line 113: habits.find(h => h.category === category)
categoryHabitOf(habitList, category) ==
    IF \E k \in DOMAIN habitList : habitList[k].category = category
    THEN <<habitList[CHOOSE k \in DOMAIN habitList :
                        /\ habitList[k].category = category
                        /\ \A j \in 1..(k - 1) : habitList[j].category # category]>>
    ELSE <<>>

\* lines 129-132
dayBonus(preferredTime, slotDayOfWeek) ==
    IF preferredTime.dayOfWeek = slotDayOfWeek THEN 10 ELSE 0

\* lines 135-141
hourBonusBoth(preferredTime, slotHour) ==
    (IF Abs(preferredTime.hour - slotHour) <= 1 THEN 20 ELSE 0)
        + (IF Abs(preferredTime.hour - slotHour) <= 2 THEN 10 ELSE 0)

hourBonus(preferredTime, slotHour) ==
    IF Abs(preferredTime.hour - slotHour) <= 1 THEN 20
    ELSE IF Abs(preferredTime.hour - slotHour) <= 2 THEN 10
    ELSE 0

\* lines 127-142: the loop over the preferred times
RECURSIVE habitLoop(_, _, _, _)
habitLoop(preferredTimes, score, slotHour, slotDayOfWeek) ==
    IF preferredTimes = <<>> THEN score
    ELSE habitLoop(Tail(preferredTimes),
                   score + dayBonus(Head(preferredTimes), slotDayOfWeek)
                         + hourBonus(Head(preferredTimes), slotHour),
                   slotHour, slotDayOfWeek)

\* lines 145-167
categoryBonus(category, slotHour) ==
    IF category \in {"work", "learning"}
    THEN (IF slotHour >= 9 /\ slotHour < 12 THEN 15 ELSE 0)
    ELSE IF category = "social"
    THEN (IF slotHour >= 17 THEN 10 ELSE 0)
    ELSE IF category = "health"
    THEN (IF (slotHour >= 6 /\ slotHour < 8) \/ (slotHour >= 17 /\ slotHour < 19)
          THEN 15 ELSE 0)
    ELSE 0

\* lines 169-173
bufferBonus(slot, desiredDuration) ==
    IF slot.duration >= desiredDuration + 30 THEN 10 ELSE 0

\* lines 175-176
capScore(score) == Min(score, 100)

\* lines 119-176
scoreOf(slot, desiredDuration, categoryHabit, category) ==
    LET slotHour == getHours(slot.start)
        slotDayOfWeek == getDay(slot.start)
        afterHabit == IF categoryHabit # <<>>
                      THEN habitLoop(categoryHabit[1].preferredTimes, 50,
                                     slotHour, slotDayOfWeek)
                      ELSE 50
    IN capScore(afterHabit + categoryBonus(category, slotHour)
                           + bufferBonus(slot, desiredDuration))

\* lines 131, 138: the reasons of one preferred time; a template literal with
\* the category is the pair of its text and the category
preferredTimeReasons(preferredTime, slotHour, slotDayOfWeek, category) ==
    (IF preferredTime.dayOfWeek = slotDayOfWeek
     THEN <<(<<"You often schedule ${category} events on this day", category>>)>>
     ELSE <<>>)
    \o (IF Abs(preferredTime.hour - slotHour) <= 1
        THEN <<(<<"This matches your usual time for ${category} tasks", category>>)>>
        ELSE <<>>)

\* lines 127-142: the reasons pushed by the loop over the preferred times
RECURSIVE habitReasons(_, _, _, _)
habitReasons(preferredTimes, slotHour, slotDayOfWeek, category) ==
    IF preferredTimes = <<>> THEN <<>>
    ELSE preferredTimeReasons(Head(preferredTimes), slotHour, slotDayOfWeek, category)
            \o habitReasons(Tail(preferredTimes), slotHour, slotDayOfWeek, category)

\* lines 120-173: the reasons pushed for one slot
reasonsOf(slot, desiredDuration, categoryHabit, category) ==
    LET slotHour == getHours(slot.start)
        slotDayOfWeek == getDay(slot.start)
    IN (IF categoryHabit # <<>>
        THEN habitReasons(categoryHabit[1].preferredTimes, slotHour, slotDayOfWeek,
                          category)
        ELSE <<>>)
       \o (IF category \in {"work", "learning"} /\ slotHour >= 9 /\ slotHour < 12
           THEN <<(<<"Morning hours are great for focused work">>)>> ELSE <<>>)
       \o (IF category = "social" /\ slotHour >= 17
           THEN <<(<<"Evening is typically better for social activities">>)>> ELSE <<>>)
       \o (IF /\ category = "health"
              /\ (slotHour >= 6 /\ slotHour < 8) \/ (slotHour >= 17 /\ slotHour < 19)
           THEN <<(<<"Great time for exercise">>)>> ELSE <<>>)
       \o (IF slot.duration >= desiredDuration + 30
           THEN <<(<<"Extra buffer time available">>)>> ELSE <<>>)

\* lines 179-183
suggestedSlotUntrimmed(slot, desiredDuration) == slot

suggestedSlot(slot, desiredDuration) ==
    [start |-> slot.start,
     end |-> addMinutes(slot.start, desiredDuration),
     duration |-> desiredDuration]

\* lines 115-187: the loop over the free slots
RECURSIVE slotLoop(_, _, _, _)
slotLoop(slots, desiredDuration, categoryHabit, category) ==
    IF slots = <<>> THEN <<>>
    ELSE LET slot == Head(slots)
             rest == slotLoop(Tail(slots), desiredDuration, categoryHabit, category)
         IN IF slot.duration < desiredDuration THEN rest
            ELSE <<[slot |-> suggestedSlot(slot, desiredDuration),
                    score |-> scoreOf(slot, desiredDuration, categoryHabit, category),
                    reasons |-> reasonsOf(slot, desiredDuration, categoryHabit,
                                          category)]>>
                 \o rest

\* line 190: Array.prototype.sort with (a, b) => b.score - a.score: a stable
\* sort, an element is placed after those of equal score that precede it
RECURSIVE InsertByScoreBeforeEqual(_, _)
InsertByScoreBeforeEqual(sorted, x) ==
    IF sorted = <<>> THEN <<x>>
    ELSE IF Head(sorted).score > x.score
         THEN <<Head(sorted)>> \o InsertByScoreBeforeEqual(Tail(sorted), x)
         ELSE <<x>> \o sorted

RECURSIVE InsertByScore(_, _)
InsertByScore(sorted, x) ==
    IF sorted = <<>> THEN <<x>>
    ELSE IF Head(sorted).score >= x.score
         THEN <<Head(sorted)>> \o InsertByScore(Tail(sorted), x)
         ELSE <<x>> \o sorted

RECURSIVE SortByScore(_)
SortByScore(s) ==
    IF s = <<>> THEN <<>>
    ELSE InsertByScore(SortByScore(SubSeq(s, 1, Len(s) - 1)), s[Len(s)])

\* lines 104-191
suggestBestTimes(slots, desiredDuration, habitList, category) ==
    SortByScore(slotLoop(slots, desiredDuration,
                         categoryHabitOf(habitList, category), category))

\* The free slots passed: in the morning, before noon, in the early morning,
\* in the evening, before the working hours, and a short one.
FreeSlot(start, minutes) ==
    [start |-> start, end |-> start + minutes * 60, duration |-> minutes]

SlotPool ==
    { FreeSlot(At(0, 1, 9, 0, 0), 120),
      FreeSlot(At(0, 1, 11, 30, 0), 45),
      FreeSlot(At(0, 2, 7, 0, 0), 60),
      FreeSlot(At(0, 2, 17, 0, 0), 30),
      FreeSlot(At(0, 3, 8, 0, 0), 80),
      FreeSlot(At(0, 4, 19, 30, 0), 20) }

\* The patterns passed: none; the 'work' pattern of the weekly events of
\* earlier sessions (Monday and Thursday 09:00); that pattern and a 'health'
\* pattern learned from events at 07:00 on five weekdays.
HealthEvents == [k \in 1..5 |-> Event(At(0, k, 7, 0, 0), 45, 0, "health")]

HabitLists ==
    { <<>>,
      getAllHabits(learnAll(<<>>, SeedEvents(SeedLen))),
      getAllHabits(learnAll(<<>>, SeedEvents(SeedLen) \o HealthEvents)) }

exceptScorer ==
    <<conflictVars, habitVars, queryVars, finderVars, storeVars, chatVars, lastVars>>

ScorerInit ==
    /\ \E n \in 0..MaxSlots : \E slots \in [1..n -> SlotPool] :
          /\ \A i, j \in 1..n : i # j => slots[i] # slots[j]
          /\ \E d \in {30, 60} : \E habitList \in HabitLists :
             \E category \in {"work", "learning", "health", "social", "other", Undefined} :
                scorerArgs = [freeSlots |-> slots, desiredDuration |-> d,
                              habits |-> habitList, category |-> category]
    /\ suggestions = <<>>
    /\ scorerPhase = "ready"
    /\ ConflictIdle
    /\ habits = <<>> /\ calls = <<>> /\ history = <<>> /\ seeded = 0
    /\ QueryIdle /\ FinderIdle /\ StoreCreated /\ ChatIdle /\ LastIdle

\* suggestBestTimes(freeSlots, desiredDuration, habits, category)
SuggestBestTimes ==
    /\ scorerPhase = "ready"
    /\ suggestions' = suggestBestTimes(scorerArgs.freeSlots, scorerArgs.desiredDuration,
                                       scorerArgs.habits, scorerArgs.category)
    /\ scorerPhase' = "suggested"
    /\ UNCHANGED <<scorerArgs, exceptScorer>>

ScorerNext == SuggestBestTimes

ScorerSpec == ScorerInit /\ [][ScorerNext]_vars

----------------------------------------------------------------------------
(* Properties of the scorer *)

Suggested == scorerPhase = "suggested"

\* The candidate of a suggestion: the free slot passed that starts where the
\* suggested slot starts (the slots passed start at different instants).
CandidateIndex(suggestion) ==
    CHOOSE k \in DOMAIN scorerArgs.freeSlots :
        scorerArgs.freeSlots[k].start = suggestion.slot.start

Candidate(suggestion) == scorerArgs.freeSlots[CandidateIndex(suggestion)]

\* The preferred times of the pattern of the category asked for.
PreferredTimes ==
    LET of == {k \in DOMAIN scorerArgs.habits :
                  scorerArgs.habits[k].category = scorerArgs.category}
    IN IF of = {} THEN <<>>
       ELSE scorerArgs.habits[CHOOSE k \in of : TRUE].preferredTimes

HourDistance(slot) ==
    [k \in DOMAIN PreferredTimes |-> Abs(getHours(slot.start) - PreferredTimes[k].hour)]

\* The bonuses of the specification, counted per kind.
Bonuses(slot) ==
    10 * Cardinality({k \in DOMAIN PreferredTimes :
                         PreferredTimes[k].dayOfWeek = getDay(slot.start)})
    + 20 * Cardinality({k \in DOMAIN PreferredTimes : HourDistance(slot)[k] <= 1})
    + 10 * Cardinality({k \in DOMAIN PreferredTimes : HourDistance(slot)[k] = 2})
    + (IF /\ scorerArgs.category \in {"work", "learning"}
          /\ getHours(slot.start) \in 9..11 THEN 15 ELSE 0)
    + (IF scorerArgs.category = "social" /\ getHours(slot.start) >= 17 THEN 10 ELSE 0)
    + (IF /\ scorerArgs.category = "health"
          /\ getHours(slot.start) \in {6, 7, 17, 18} THEN 15 ELSE 0)
    + (IF slot.duration >= scorerArgs.desiredDuration + 30 THEN 10 ELSE 0)

Eligible == {i \in DOMAIN scorerArgs.freeSlots :
                scorerArgs.freeSlots[i].duration >= scorerArgs.desiredDuration}

SuggestionsFor(i) ==
    {k \in DOMAIN suggestions :
        suggestions[k].slot.start = scorerArgs.freeSlots[i].start}

C16_OnePerFittingSlot ==
    Suggested =>
        /\ \A i \in DOMAIN scorerArgs.freeSlots :
              Cardinality(SuggestionsFor(i)) = IF i \in Eligible THEN 1 ELSE 0
        /\ Len(suggestions) = Cardinality(Eligible)
        /\ \A k \in DOMAIN suggestions :
              /\ \E i \in Eligible : k \in SuggestionsFor(i)
              /\ suggestions[k].slot.end =
                    suggestions[k].slot.start + scorerArgs.desiredDuration * 60
              /\ suggestions[k].slot.duration = scorerArgs.desiredDuration
              /\ suggestions[k].slot.end <= Candidate(suggestions[k]).end

C16_InputKept == scorerArgs' = scorerArgs

\* C16: suggestBestTimes returns one suggestion for every free slot passed
\* that lasts at least desiredDuration and none for a shorter one; each
\* suggested slot starts at its candidate's start, lasts desiredDuration
\* minutes and ends within its candidate; the slots passed are left as
\* they were.
C16_OneTrimmedSuggestionPerSlot ==
    [] C16_OnePerFittingSlot /\ [][C16_InputKept]_vars

\* A slot longer than asked for is trimmed and a shorter one is discarded.
C16_Witness ==
    /\ Suggested
    /\ \E k \in DOMAIN suggestions :
          suggestions[k].slot.end < Candidate(suggestions[k]).end
    /\ \E i \in DOMAIN scorerArgs.freeSlots : i \notin Eligible
    /\ Len(suggestions) >= 2

\* C17: the suggestions are in order of non-increasing score, and suggestions
\* of equal score are in the order of their candidates in the slots passed.
C17_SortedStable ==
    Suggested =>
        \A i, j \in DOMAIN suggestions :
            i < j =>
                /\ suggestions[i].score >= suggestions[j].score
                /\ suggestions[i].score = suggestions[j].score =>
                      CandidateIndex(suggestions[i]) < CandidateIndex(suggestions[j])

\* Two suggestions of equal score, and one moved in front of a candidate that
\* was passed before its own.
C17_Witness ==
    /\ Suggested
    /\ \E i, j \in DOMAIN suggestions :
          i < j /\ suggestions[i].score = suggestions[j].score
    /\ \E i, j \in DOMAIN suggestions :
          /\ i < j
          /\ CandidateIndex(suggestions[i]) > CandidateIndex(suggestions[j])

\* The bonuses of the specification applied to a slot, counted: a weekday
\* match, an hour within 1 or an hour within 2 per preferred time, the
\* time-of-day bonus of the category, the buffer bonus.
BonusCount(slot) ==
    Cardinality({k \in DOMAIN PreferredTimes :
                    PreferredTimes[k].dayOfWeek = getDay(slot.start)})
    + Cardinality({k \in DOMAIN PreferredTimes : HourDistance(slot)[k] <= 2})
    + (IF /\ scorerArgs.category \in {"work", "learning"}
          /\ getHours(slot.start) \in 9..11 THEN 1 ELSE 0)
    + (IF scorerArgs.category = "social" /\ getHours(slot.start) >= 17 THEN 1 ELSE 0)
    + (IF /\ scorerArgs.category = "health"
          /\ getHours(slot.start) \in {6, 7, 17, 18} THEN 1 ELSE 0)
    + (IF slot.duration >= scorerArgs.desiredDuration + 30 THEN 1 ELSE 0)

\* C22 as stated: the reasons of every suggestion number as many as the
\* bonuses added to its score, and are empty exactly when the score is the
\* base 0.5.
C22_OneReasonPerBonus ==
    Suggested =>
        \A k \in DOMAIN suggestions :
            /\ Len(suggestions[k].reasons) = BonusCount(Candidate(suggestions[k]))
            /\ suggestions[k].reasons = <<>> <=> suggestions[k].score = 50

----------------------------------------------------------------------------
(* stores/calendarStore.ts with services/storage/events.ts: the events    *)
(* shown and the conflicts of the banner.  Every store action runs to the  *)
(* end of its loadVisibleEvents before the next one starts.                *)

MaxStoreAdds == 2
MaxNavDays == 31

\* The calendar of 2026 from February to June: the first day of each month
\* and of July, counted from 1 February.
MonthStarts == <<0, 28, 59, 89, 120, 150>>

monthOf(t) ==
    CHOOSE k \in 1..(Len(MonthStarts) - 1) :
        MonthStarts[k] * 86400 <= t /\ t < MonthStarts[k + 1] * 86400

\* date-fns startOfMonth, endOfMonth, startOfWeek and endOfWeek (weekStartsOn
\* 0), endOfDay; instants are whole seconds, the last of a day is 23:59:59
startOfMonth(t) == MonthStarts[monthOf(t)] * 86400
endOfMonth(t) == MonthStarts[monthOf(t) + 1] * 86400 - 1
startOfWeek(t) == startOfDay(t) - getDay(t) * 86400
endOfWeek(t) == startOfWeek(t) + 7 * 86400 - 1
endOfDay(t) == startOfDay(t) + 86400 - 1

\* date-fns addMonths (n = -1 for subMonths): the same day of the month, or
\* the last day of a shorter month, at the same time of day
addMonths(t, n) ==
    LET target == monthOf(t) + n
        dayOfMonth == (startOfDay(t) - startOfMonth(t)) \div 86400
        lastDay == MonthStarts[target + 1] - MonthStarts[target] - 1
    IN (MonthStarts[target] + Min(dayOfMonth, lastDay)) * 86400 + (t % 86400)

addWeeks(t, n) == t + n * 7 * 86400

\* db.ts lines 235-253: toStoredEvent / fromStoredEvent
toStoredEvent(event) ==
    [event EXCEPT !.start = toISOString(event.start), !.end = toISOString(event.end)]

fromStoredEvent(stored) ==
    [stored EXCEPT !.start = parseISO(stored.start), !.end = parseISO(stored.end)]

\* The order of ISO strings: character by character, which is field by field
isoBelow(a, b) ==
    \/ a.date < b.date
    \/ a.date = b.date /\ a.hh < b.hh
    \/ a.date = b.date /\ a.hh = b.hh /\ a.mm < b.mm
    \/ a.date = b.date /\ a.hh = b.hh /\ a.mm = b.mm /\ a.ss < b.ss

\* events.ts lines 63-81: getEventsInRange; an index on start gives the
\* records in the order of start, records of equal start in key order
getEventsInRange(table, start, end) ==
    LET stored == SelectSeq(table, LAMBDA e :
                      /\ ~isoBelow(e.start, toISOString(start))
                      /\ ~isoBelow(toISOString(end), e.start))
        overlapping == SelectSeq(table, LAMBDA e :
                           /\ isoBelow(e.start, toISOString(start))
                           /\ parseISO(e.end) >= start)
    IN SortByStart([k \in DOMAIN stored |-> fromStoredEvent(stored[k])])
           \o SortByStart([k \in DOMAIN overlapping |-> fromStoredEvent(overlapping[k])])

\* calendarStore.ts lines 190-208: the range of the view
rangeStart(date, v) ==
    IF v = "month" THEN startOfWeek(startOfMonth(date))
    ELSE IF v = "week" THEN startOfWeek(date)
    ELSE startOfDay(date)

rangeEnd(date, v) ==
    IF v = "month" THEN endOfWeek(endOfMonth(date))
    ELSE IF v = "week" THEN endOfWeek(date)
    ELSE endOfDay(date)

\* calendarStore.ts lines 373-375: conflicts.find(c => c.events.includes(
\* eventA.id) || c.events.includes(eventB.id)), as an index or 0
existingConflict(found, a, b) ==
    IF \E k \in DOMAIN found : a \in Range(found[k].events) \/ b \in Range(found[k].events)
    THEN CHOOSE k \in DOMAIN found :
            /\ a \in Range(found[k].events) \/ b \in Range(found[k].events)
            /\ \A m \in 1..(k - 1) :
                  ~(a \in Range(found[m].events) \/ b \in Range(found[m].events))
    ELSE 0

\* calendarStore.ts lines 372-392
recordOverlap(found, i, j, a, b) ==
    LET k == existingConflict(found, a, b)
    IN IF k # 0
       THEN [found EXCEPT ![k].events = SetAdd(SetAdd(found[k].events, a), b)]
       ELSE Append(found, [id |-> <<i, j>>, events |-> <<a, b>>,
                           type |-> "overlap", severity |-> "medium"])

\* calendarStore.ts lines 366-394: the pairwise scan
RECURSIVE storePairLoop(_, _, _, _)
storePairLoop(sorted, i, j, found) ==
    IF i > Len(sorted) THEN found
    ELSE IF j > Len(sorted) THEN storePairLoop(sorted, i + 1, i + 2, found)
    ELSE storePairLoop(sorted, i, j + 1,
            IF sorted[j].start < sorted[i].end /\ sorted[j].end > sorted[i].start
            THEN recordOverlap(found, i, j, sorted[i].id, sorted[j].id)
            ELSE found)

\* calendarStore.ts lines 361-399: the store's detectConflicts
storeDetectConflicts(visible) == storePairLoop(SortByStart(visible), 1, 2, <<>>)

\* The events the user creates: two that overlap on the day shown first, and
\* an all-day event of that day.
StoreEvent(start, end, allDay, category) ==
    [start |-> start, end |-> end, allDay |-> allDay, category |-> category]

StorePool ==
    { StoreEvent(At(9, 3, 9, 0, 0), At(9, 3, 10, 0, 0), FALSE, "work"),
      StoreEvent(At(9, 3, 9, 30, 0), At(9, 3, 10, 30, 0), FALSE, "personal"),
      StoreEvent(At(9, 3, 0, 0, 0), At(9, 3, 23, 59, 59), TRUE, Undefined) }

\* The edits the user makes: the event moved to the Thursday of the week after.
UpdatePool ==
    { [start |-> At(10, 4, 9, 0, 0), end |-> At(10, 4, 10, 0, 0)] }

exceptStore ==
    <<conflictVars, queryVars, finderVars, scorerVars, chatVars, lastVars>>

StoreInit ==
    /\ StoreCreated
    /\ ConflictIdle
    /\ habits = <<>> /\ calls = <<>> /\ history = <<>> /\ seeded = 0
    /\ QueryIdle /\ FinderIdle /\ ScorerIdle /\ ChatIdle /\ LastIdle

\* calendarStore.ts lines 189-214: loadVisibleEvents on the table, date and
\* view given
LoadVisibleEvents(table, date, v) ==
    LET visible == getEventsInRange(table, rangeStart(date, v), rangeEnd(date, v))
    IN /\ visibleEvents' = visible
       /\ storeConflicts' = storeDetectConflicts(visible)

\* Dates further than MaxNavDays from today are not navigated to.
Navigable(date) == Abs(startOfDay(date) - startOfDay(Today)) <= MaxNavDays * 86400

\* calendarStore.ts lines 137-140
SetCurrentDate(date) ==
    /\ Navigable(date)
    /\ currentDate' = date
    /\ LoadVisibleEvents(dbEvents, date, view)
    /\ UNCHANGED <<dbEvents, view, habitVars, exceptStore>>

\* calendarStore.ts lines 142-145
SetView(v) ==
    /\ view' = v
    /\ LoadVisibleEvents(dbEvents, currentDate, v)
    /\ UNCHANGED <<dbEvents, currentDate, habitVars, exceptStore>>

\* calendarStore.ts lines 147-164
NavigateForward ==
    LET newDate == IF view = "month" THEN addMonths(currentDate, 1)
                   ELSE IF view = "week" THEN addWeeks(currentDate, 1)
                   ELSE addDays(currentDate, 1)
    IN /\ Navigable(newDate)
       /\ currentDate' = newDate
       /\ LoadVisibleEvents(dbEvents, newDate, view)
       /\ UNCHANGED <<dbEvents, view, habitVars, exceptStore>>

\* calendarStore.ts lines 166-183
NavigateBackward ==
    LET newDate == IF view = "month" THEN addMonths(currentDate, -1)
                   ELSE IF view = "week" THEN addWeeks(currentDate, -1)
                   ELSE addDays(currentDate, -1)
    IN /\ Navigable(newDate)
       /\ currentDate' = newDate
       /\ LoadVisibleEvents(dbEvents, newDate, view)
       /\ UNCHANGED <<dbEvents, view, habitVars, exceptStore>>

\* calendarStore.ts lines 185-188
GoToToday ==
    /\ currentDate' = Today
    /\ LoadVisibleEvents(dbEvents, Today, view)
    /\ UNCHANGED <<dbEvents, view, habitVars, exceptStore>>

\* calendarStore.ts lines 217-241 with events.ts lines 11-23: createEvent,
\* learnFromEvent, loadVisibleEvents; generateId() is a fresh key, later keys
\* sorting after earlier ones
AddEvent(eventData) ==
    /\ Len(history) < MaxStoreAdds
    /\ LET newEvent == [id |-> Len(history) + 1, start |-> eventData.start,
                        end |-> eventData.end, allDay |-> eventData.allDay,
                        category |-> eventData.category]
           table == Append(dbEvents, toStoredEvent(newEvent))
       IN /\ dbEvents' = table
          /\ habits' = learnFromEvent(habits, newEvent)
          /\ history' = Append(history, newEvent)
          /\ LoadVisibleEvents(table, currentDate, view)
    /\ UNCHANGED <<currentDate, view, calls, seeded, exceptStore>>

\* calendarStore.ts lines 243-261 with events.ts lines 31-44: updateEvent; an
\* id without record changes nothing
UpdateEvent(id, updates) ==
    /\ IF \E k \in DOMAIN dbEvents : dbEvents[k].id = id
       THEN LET table == [k \in DOMAIN dbEvents |->
                             IF dbEvents[k].id = id
                             THEN toStoredEvent([fromStoredEvent(dbEvents[k]) EXCEPT
                                                    !.start = updates.start,
                                                    !.end = updates.end])
                             ELSE dbEvents[k]]
            IN /\ dbEvents' = table
               /\ LoadVisibleEvents(table, currentDate, view)
       ELSE UNCHANGED <<dbEvents, visibleEvents, storeConflicts>>
    /\ UNCHANGED <<currentDate, view, habitVars, exceptStore>>

\* calendarStore.ts lines 263-279 with events.ts lines 47-55: deleteEvent
DeleteEvent(id) ==
    /\ LET table == SelectSeq(dbEvents, LAMBDA e : e.id # id)
       IN /\ dbEvents' = table
          /\ LoadVisibleEvents(table, currentDate, view)
    /\ UNCHANGED <<currentDate, view, habitVars, exceptStore>>

StoreNext ==
    \/ \E date \in {At(10, 4, 12, 0, 0)} : SetCurrentDate(date)
    \/ \E v \in {"month", "week", "day"} : SetView(v)
    \/ NavigateForward
    \/ NavigateBackward
    \/ GoToToday
    \/ \E eventData \in StorePool : AddEvent(eventData)
    \/ \E id \in 1..MaxStoreAdds : \E updates \in UpdatePool : UpdateEvent(id, updates)
    \/ \E id \in 1..MaxStoreAdds : DeleteEvent(id)

StoreSpec == StoreInit /\ [][StoreNext]_vars

\* A conflict as the banner shows it: its events and its severity.
Shown(found) ==
    {[events |-> Range(found[k].events), severity |-> found[k].severity] :
        k \in DOMAIN found}

\* C18 as stated: after every completed loadVisibleEvents the store's
\* conflicts are the result of the scheduler's detectConflicts on the visible
\* events: all-day events excluded, one group per set of transitively
\* connected overlaps, severity low for 2 events, medium for 3, high for 4
\* or more.
C18_StoreConflictsAreDetectConflicts ==
    /\ Shown(storeConflicts) = Shown(detectConflicts(visibleEvents))
    /\ Len(storeConflicts) = Len(detectConflicts(visibleEvents))

----------------------------------------------------------------------------
(* services/ai/claude.ts (prompts.ts lines 417-674): sendMessage and the   *)
(* conversation history.  Every await of sendMessage is a point where      *)
(* another invocation, or a reset, can run.                                *)

MaxSends == 3
ChatSeed == 9

Message(role, content) == [role |-> role, content |-> content]

\* The history after n exchanges of an earlier part of the session, each of
\* them a sendMessage(prompt, true) that succeeded before the next was made.
SeedHistory(n) ==
    [k \in 1..(2 * n) |-> Message(IF k % 2 = 1 THEN "user" ELSE "assistant", 0)]

\* Array.prototype.pop: the array without its last element, if it has one
pop(array) == IF array = <<>> THEN <<>> ELSE SubSeq(array, 1, Len(array) - 1)

popped(array) == IF array = <<>> THEN <<>> ELSE <<array[Len(array)]>>

\* lines 487-490
keepManageable(h) == IF Len(h) > 20 THEN SliceLast(h, 20) ELSE h

exceptChat ==
    <<conflictVars, habitVars, queryVars, finderVars, scorerVars, storeVars, lastVars>>

ChatInit ==
    /\ \E n \in {0, ChatSeed} : conversationHistory = SeedHistory(n)
    /\ sends = <<>>
    /\ ConflictIdle
    /\ habits = <<>> /\ calls = <<>> /\ history = <<>> /\ seeded = 0
    /\ QueryIdle /\ FinderIdle /\ ScorerIdle /\ StoreCreated /\ LastIdle

\* lines 439-440: sendMessage(prompt, useHistory) is called and waits for
\* getApiKey(); the prompt is the number of the call
SendMessage(useHistory) ==
    /\ Len(sends) < MaxSends
    /\ sends' = Append(sends, [pc |-> "getApiKey", prompt |-> Len(sends) + 1,
                               useHistory |-> useHistory, messages |-> <<>>,
                               removed |-> <<>>])
    /\ UNCHANGED <<conversationHistory, exceptChat>>

\* lines 441-443: no API key is configured
ApiKeyMissing(c) ==
    /\ sends[c].pc = "getApiKey"
    /\ sends' = [sends EXCEPT ![c].pc = "thrown: no API key"]
    /\ UNCHANGED <<conversationHistory, exceptChat>>

\* lines 445-455: the user message is added and the request is sent
Fetch(c) ==
    /\ sends[c].pc = "getApiKey"
    /\ LET userMessage == Message("user", sends[c].prompt)
           pushed == IF sends[c].useHistory
                     THEN Append(conversationHistory, userMessage)
                     ELSE conversationHistory
       IN /\ conversationHistory' = pushed
          /\ sends' = [sends EXCEPT
                          ![c].pc = "fetch",
                          ![c].messages = IF sends[c].useHistory THEN pushed
                                          ELSE <<userMessage>>]
    /\ UNCHANGED exceptChat

\* line 455: fetch rejects (no connection)
FetchRejects(c) ==
    /\ sends[c].pc = "fetch"
    /\ sends' = [sends EXCEPT ![c].pc = "thrown: fetch failed"]
    /\ UNCHANGED <<conversationHistory, exceptChat>>

\* lines 455-472: the response arrives with an error status; its body is read
ResponseNotOk(c) ==
    /\ sends[c].pc = "fetch"
    /\ sends' = [sends EXCEPT ![c].pc = "error.json"]
    /\ UNCHANGED <<conversationHistory, exceptChat>>

\* lines 473-477: the failed message is removed and the error is thrown
ThrowApiError(c) ==
    /\ sends[c].pc = "error.json"
    /\ conversationHistory' = IF sends[c].useHistory THEN pop(conversationHistory)
                              ELSE conversationHistory
    /\ sends' = [sends EXCEPT
                    ![c].pc = "thrown: API error",
                    ![c].removed = IF sends[c].useHistory THEN popped(conversationHistory)
                                   ELSE <<>>]
    /\ UNCHANGED exceptChat

\* lines 455-480: the response arrives with status ok; its body is read
ResponseOk(c) ==
    /\ sends[c].pc = "fetch"
    /\ sends' = [sends EXCEPT ![c].pc = "response.json"]
    /\ UNCHANGED <<conversationHistory, exceptChat>>

\* lines 481-493: a text answer is added to the history and returned
ReturnText(c) ==
    /\ sends[c].pc = "response.json"
    /\ conversationHistory' =
          IF sends[c].useHistory
          THEN keepManageable(Append(conversationHistory,
                                     Message("assistant", sends[c].prompt)))
          ELSE conversationHistory
    /\ sends' = [sends EXCEPT ![c].pc = "returned"]
    /\ UNCHANGED exceptChat

\* lines 481-495: the answer is not text
UnexpectedType(c) ==
    /\ sends[c].pc = "response.json"
    /\ sends' = [sends EXCEPT ![c].pc = "thrown: unexpected type"]
    /\ UNCHANGED <<conversationHistory, exceptChat>>

\* lines 427-433: resetClient / clearConversationHistory
ClearConversationHistory ==
    /\ conversationHistory # <<>>
    /\ conversationHistory' = <<>>
    /\ UNCHANGED <<sends, exceptChat>>

ChatNext ==
    \/ \E useHistory \in BOOLEAN : SendMessage(useHistory)
    \/ \E c \in DOMAIN sends : ApiKeyMissing(c)
    \/ \E c \in DOMAIN sends : Fetch(c)
    \/ \E c \in DOMAIN sends : FetchRejects(c)
    \/ \E c \in DOMAIN sends : ResponseNotOk(c)
    \/ \E c \in DOMAIN sends : ThrowApiError(c)
    \/ \E c \in DOMAIN sends : ResponseOk(c)
    \/ \E c \in DOMAIN sends : ReturnText(c)
    \/ \E c \in DOMAIN sends : UnexpectedType(c)
    \/ ClearConversationHistory

ChatSpec == ChatInit /\ [][ChatNext]_vars

\* C19 as stated: a sendMessage(prompt, true) call that fails with an API
\* error removes the user message that it appended itself and no other
\* entry, also with several history-using calls in flight: what the call
\* removes is its own user message (or nothing, when a reset has removed it
\* before), and its own user message is not in the history afterwards.
C19_RollbackRemovesOwnMessage ==
    \A c \in DOMAIN sends :
        (sends[c].pc = "thrown: API error" /\ sends[c].useHistory) =>
            /\ sends[c].removed \in {<<>>, <<Message("user", sends[c].prompt)>>}
            /\ Message("user", sends[c].prompt) \notin Range(conversationHistory)

\* C20 as stated: conversationHistory holds at most 20 messages in every
\* reachable state, and no request carries more than 20 messages.
C20_AtMostTwentyMessages ==
    /\ Len(conversationHistory) <= 20
    /\ \A c \in DOMAIN sends : Len(sends[c].messages) <= 20

----------------------------------------------------------------------------
(* services/scheduler/reminders.ts: createSmartReminders and the reminder  *)
(* checker.  The clock starts at Today and moves in steps of half an hour. *)

MaxHalfHours == 3
MaxReminders == 2
MaxChecks == 2

\* reminders.ts lines 84-112: analyzeHabitForReminders(habit, events)
analyzeHabitForReminders(habit, evs) ==
    LET categoryEvents == SelectSeq(evs, LAMBDA e :
                              e.category = habit.category /\ e.completed)
    IN IF Len(categoryEvents) < 3 THEN 15
       ELSE IF habit.frequency = "daily" THEN 10
       ELSE IF habit.frequency = "weekly" THEN 30
       ELSE IF habit.frequency = "monthly" THEN 60
       ELSE 15

\* reminders.ts lines 66-81: the reminders createDefaultReminders asks
\* createReminder for, with defaultMinutes [15, 60]
createDefaultReminders(event, now) ==
    LET wanted == [k \in 1..2 |-> [minutesBefore |-> <<15, 60>>[k], type |-> "time-based"]]
    IN SelectSeq(wanted, LAMBDA w : isBefore(now, addMinutes(event.start, -w.minutesBefore)))

\* reminders.ts lines 115-139: the reminders createSmartReminders asks
\* createReminder for
createSmartReminders(event, habitList, now) ==
    LET habit == categoryHabitOf(habitList, event.category)
    IN IF habit # <<>> /\ habit[1].eventCount >= 3
       THEN LET suggestedMinutes == analyzeHabitForReminders(habit[1], <<>>)
            IN IF isBefore(now, addMinutes(event.start, -suggestedMinutes))
               THEN <<[minutesBefore |-> suggestedMinutes, type |-> "habit-learned"]>>
               ELSE <<>>
       ELSE createDefaultReminders(event, now)

\* reminders.ts lines 7-31 with db.ts lines 269-275: createReminder for each
\* reminder wanted; generateId() is a fresh key, later keys sorting after
\* earlier ones.  The event is read from db.events; without it createReminder
\* throws and nothing more is added.
RECURSIVE createReminders(_, _, _, _)
createReminders(table, stored, eventId, wanted) ==
    IF wanted = <<>> THEN [table |-> table, thrown |-> FALSE]
    ELSE IF \A k \in DOMAIN stored : stored[k].id # eventId
    THEN [table |-> table, thrown |-> TRUE]
    ELSE LET event == stored[CHOOSE k \in DOMAIN stored : stored[k].id = eventId]
             reminder == [id |-> Len(table) + 1,
                          eventId |-> eventId,
                          triggerTime |-> toISOString(addMinutes(parseISO(event.start),
                                                          -Head(wanted).minutesBefore)),
                          type |-> Head(wanted).type,
                          dismissed |-> FALSE,
                          minutesBefore |-> Head(wanted).minutesBefore]
         IN createReminders(Append(table, reminder), stored, eventId, Tail(wanted))

\* reminders.ts lines 34-43: getPendingReminders.  The query
\* where('dismissed').equals(0) reads the index on dismissed under the key 0;
\* the records hold the booleans false and true (lines 24, 57).  IndexedDB
\* keeps no index entry for a boolean, so that no record is found; the code's
\* comment takes false to be found under 0.  Both stores are modelled.
getPendingReminders(table, matchesFalse, now) ==
    SelectSeq(table, LAMBDA r :
        /\ matchesFalse /\ r.dismissed = FALSE
        /\ ~isoBelow(toISOString(now), r.triggerTime))

\* reminders.ts lines 142-151: checkAndTriggerReminders; now is read before
\* the query is made and nowOfQuery by the query
checkAndTriggerReminders(table, matchesFalse, now, nowOfQuery) ==
    SelectSeq(getPendingReminders(table, matchesFalse, nowOfQuery), LAMBDA r :
        isBefore(parseISO(r.triggerTime), now) /\ ~r.dismissed)

\* reminders.ts line 57: db.reminders.update(reminderId, { dismissed: true })
dismissReminder(table, reminderId) ==
    [k \in DOMAIN table |->
        IF table[k].id = reminderId THEN [table[k] EXCEPT !.dismissed = TRUE]
        ELSE table[k]]

\* The events of the day: a 'work' event at 12:00 and a 'health' event at
\* 10:30, both stored, and a 'work' event that was never stored.
ReminderEvents ==
    << [id |-> 1, start |-> At(9, 3, 12, 0, 0), end |-> At(9, 3, 13, 0, 0),
        allDay |-> FALSE, category |-> "work"],
       [id |-> 2, start |-> At(9, 3, 10, 30, 0), end |-> At(9, 3, 11, 0, 0),
        allDay |-> FALSE, category |-> "health"] >>

UnstoredEvent ==
    [id |-> 3, start |-> At(9, 3, 15, 0, 0), end |-> At(9, 3, 16, 0, 0),
     allDay |-> FALSE, category |-> "work"]

\* The patterns passed: those of the scorer, and a 'work' pattern learned
\* from two events only.
ReminderHabitLists == HabitLists \cup {getAllHabits(learnAll(<<>>, SeedEvents(2)))}

exceptReminder ==
    <<conflictVars, habitVars, queryVars, finderVars, scorerVars, chatVars,
      currentDate, view, visibleEvents, storeConflicts, taskVars, asyncVars>>

\* The day begins with the events stored and no reminder.
SmartReminderInit ==
    /\ clock = Today
    /\ dbEvents = [k \in DOMAIN ReminderEvents |-> toStoredEvent(ReminderEvents[k])]
    /\ reminders = <<>>
    /\ indexedFalse \in BOOLEAN
    /\ smartReminders = <<>>
    /\ reminderInterval = 0
    /\ checks = <<>>
    /\ notified = <<>>
    /\ currentDate = Today /\ view = "month"
    /\ visibleEvents = <<>> /\ storeConflicts = <<>>
    /\ ConflictIdle
    /\ habits = <<>> /\ calls = <<>> /\ history = <<>> /\ seeded = 0
    /\ QueryIdle /\ FinderIdle /\ ScorerIdle /\ ChatIdle /\ TaskIdle /\ AsyncIdle

\* Half an hour passes.
TimePasses ==
    /\ clock < Today + MaxHalfHours * 1800
    /\ clock' = clock + 1800
    /\ UNCHANGED <<dbEvents, reminders, indexedFalse, smartReminders, reminderInterval,
                   checks, notified, exceptReminder>>

\* reminders.ts lines 115-139: createSmartReminders(event, habits)
CreateSmartReminders(event, habitList) ==
    /\ Len(reminders) < MaxReminders
    /\ LET made == createReminders(reminders, dbEvents, event.id,
                                   createSmartReminders(event, habitList, clock))
       IN /\ reminders' = made.table
          /\ smartReminders' =
                <<[event |-> event, habit |-> categoryHabitOf(habitList, event.category),
                   now |-> clock, thrown |-> made.thrown,
                   returned |-> SubSeq(made.table, Len(reminders) + 1, Len(made.table))]>>
    /\ UNCHANGED <<clock, dbEvents, indexedFalse, reminderInterval, checks, notified,
                   exceptReminder>>

\* events.ts lines 47-55: deleteEvent(id) removes the event and its reminders
DeleteStoredEvent(id) ==
    /\ \E k \in DOMAIN dbEvents : dbEvents[k].id = id
    /\ dbEvents' = SelectSeq(dbEvents, LAMBDA e : e.id # id)
    /\ reminders' = SelectSeq(reminders, LAMBDA r : r.eventId # id)
    /\ UNCHANGED <<clock, indexedFalse, smartReminders, reminderInterval, checks,
                   notified, exceptReminder>>

\* reminders.ts lines 206-207: a checkReminders run begins; it reads the clock
\* and waits for the query
NewCheck == [pc |-> "getPendingReminders", now |-> clock, due |-> <<>>, i |-> 1]

\* reminders.ts lines 198-223: startReminderChecker clears the interval set
\* before, makes the initial check and sets the interval
StartReminderChecker ==
    /\ Len(checks) < MaxChecks
    /\ checks' = Append(checks, NewCheck)
    /\ reminderInterval' = Len(checks) + 1
    /\ UNCHANGED <<clock, dbEvents, reminders, indexedFalse, smartReminders, notified,
                   exceptReminder>>

\* reminders.ts line 222: the interval set last fires
IntervalFires ==
    /\ reminderInterval # 0
    /\ Len(checks) < MaxChecks
    /\ checks' = Append(checks, NewCheck)
    /\ UNCHANGED <<clock, dbEvents, reminders, indexedFalse, smartReminders,
                   reminderInterval, notified, exceptReminder>>

\* reminders.ts lines 225-230: stopReminderChecker
StopReminderChecker ==
    /\ reminderInterval # 0
    /\ reminderInterval' = 0
    /\ UNCHANGED <<clock, dbEvents, reminders, indexedFalse, smartReminders, checks,
                   notified, exceptReminder>>

\* reminders.ts line 207: the query of run c is answered
GetPendingReminders(c) ==
    /\ checks[c].pc = "getPendingReminders"
    /\ LET due == checkAndTriggerReminders(reminders, indexedFalse, checks[c].now, clock)
       IN checks' = [checks EXCEPT ![c].due = due,
                                   ![c].pc = IF due = <<>> THEN "done" ELSE "loop"]
    /\ UNCHANGED <<clock, dbEvents, reminders, indexedFalse, smartReminders,
                   reminderInterval, notified, exceptReminder>>

\* reminders.ts lines 209-215: one turn of the loop of run c.  The event is
\* read; when it exists onReminder is called and dismissReminder follows
\* without another read in between.
Deliver(c) ==
    /\ checks[c].pc = "loop"
    /\ LET reminder == checks[c].due[checks[c].i]
           event == \E k \in DOMAIN dbEvents : dbEvents[k].id = reminder.eventId
       IN /\ notified' = IF event THEN Append(notified, reminder.id) ELSE notified
          /\ reminders' = IF event THEN dismissReminder(reminders, reminder.id)
                          ELSE reminders
          /\ checks' = [checks EXCEPT
                           ![c].i = @ + 1,
                           ![c].pc = IF checks[c].i = Len(checks[c].due)
                                     THEN "done" ELSE "loop"]
    /\ UNCHANGED <<clock, dbEvents, indexedFalse, smartReminders, reminderInterval,
                   exceptReminder>>

SmartReminderNext ==
    \/ TimePasses
    \/ \E event \in Range(ReminderEvents) \cup {UnstoredEvent} :
       \E habitList \in ReminderHabitLists : CreateSmartReminders(event, habitList)

SmartReminderSpec == SmartReminderInit /\ [][SmartReminderNext]_vars

\* The day begins with the events stored and the reminders createSmartReminders
\* made for them when no pattern was learned yet: 15 and 60 minutes before
\* the first, 15 minutes before the second.
StoredEvents == [k \in DOMAIN ReminderEvents |-> toStoredEvent(ReminderEvents[k])]

RemindersOfTheDay ==
    LET first == createReminders(<<>>, StoredEvents, 1,
                     createSmartReminders(ReminderEvents[1], <<>>, Today))
    IN createReminders(first.table, StoredEvents, 2,
                       createSmartReminders(ReminderEvents[2], <<>>, Today)).table

ReminderInit ==
    /\ clock = Today
    /\ dbEvents = StoredEvents
    /\ reminders = RemindersOfTheDay
    /\ indexedFalse \in BOOLEAN
    /\ smartReminders = <<>>
    /\ reminderInterval = 0
    /\ checks = <<>>
    /\ notified = <<>>
    /\ currentDate = Today /\ view = "month"
    /\ visibleEvents = <<>> /\ storeConflicts = <<>>
    /\ ConflictIdle
    /\ habits = <<>> /\ calls = <<>> /\ history = <<>> /\ seeded = 0
    /\ QueryIdle /\ FinderIdle /\ ScorerIdle /\ ChatIdle /\ TaskIdle /\ AsyncIdle

ReminderNext ==
    \/ TimePasses
    \/ \E id \in 1..2 : DeleteStoredEvent(id)
    \/ StartReminderChecker
    \/ IntervalFires
    \/ StopReminderChecker
    \/ \E c \in DOMAIN checks : GetPendingReminders(c)
    \/ \E c \in DOMAIN checks : Deliver(c)

ReminderSpec == ReminderInit /\ [][ReminderNext]_vars

\* The lead time the design gives a frequency.
LeadTime(frequency) ==
    IF frequency = "daily" THEN 10 ELSE IF frequency = "weekly" THEN 30 ELSE 60

\* C24 as stated: for an event whose category has a habit with eventCount
\* >= 3 createSmartReminders creates a habit-learned reminder whose lead time
\* is 10, 30 or 60 minutes by the habit's frequency; for a category with no
\* habit or with fewer than 3 events it creates the default reminders.
C24_LeadTimeByFrequency ==
    \A call \in Range(smartReminders) :
        ~call.thrown =>
            IF call.habit # <<>> /\ call.habit[1].eventCount >= 3
            THEN \A k \in DOMAIN call.returned :
                    /\ call.returned[k].type = "habit-learned"
                    /\ call.returned[k].minutesBefore = LeadTime(call.habit[1].frequency)
            ELSE /\ \A k \in DOMAIN call.returned : call.returned[k].type = "time-based"
                 /\ {call.returned[k].minutesBefore : k \in DOMAIN call.returned}
                       = {m \in {15, 60} : call.now < call.event.start - m * 60}

Times(id) == Cardinality({k \in DOMAIN notified : notified[k] = id})

\* C25 as stated: no reminder is passed to onReminder twice, and when the
\* runs of the checker have all ended, every reminder that was due when one
\* of them began has been passed to onReminder once and is dismissed.
C25_DeliveredOnce ==
    /\ \A k \in DOMAIN reminders : Times(reminders[k].id) <= 1
    /\ (\A c \in DOMAIN checks : checks[c].pc = "done") =>
          \A c \in DOMAIN checks : \A k \in DOMAIN reminders :
              parseISO(reminders[k].triggerTime) < checks[c].now =>
                  /\ Times(reminders[k].id) = 1
                  /\ reminders[k].dismissed

----------------------------------------------------------------------------
(* services/storage/tasks.ts: checkTaskReminders.  The session begins at   *)
(* 08:58 of Today's date and the clock moves in steps of a minute.          *)

MaxMinutes == 4
MaxTaskChecks == 3

SessionStart == At(9, 3, 8, 58, 0)

\* date-fns differenceInDays: the number of full days, truncated toward zero
differenceInDays(later, earlier) ==
    IF later >= earlier THEN (later - earlier) \div 86400
    ELSE -((earlier - later) \div 86400)

\* tasks.ts lines 76-80: the days before the due date to remind on
daysBefore(days) ==
    IF days > 30 THEN <<21, 14, 7, 3, 1>>
    ELSE IF days > 14 THEN <<14, 7, 3, 1>>
    ELSE IF days > 7 THEN <<7, 3, 1>>
    ELSE IF days > 3 THEN <<3, 2, 1>>
    ELSE <<2, 1, 0>>

\* tasks.ts lines 64-83: computeReminderDates; now is new Date() of line 65;
\* setDate(getDate() - n) and setHours(9, 0, 0, 0) give 09:00 n days before
computeReminderDates(dueDate, now) ==
    LET ns == daysBefore(differenceInDays(dueDate, now))
        ds == [k \in DOMAIN ns |-> setHours(startOfDay(addDays(dueDate, -ns[k])), 9)]
    IN SelectSeq(ds, LAMBDA d : d > now)

\* tasks.ts line 27: sort((a, b) => a.dueDate.getTime() - b.dueDate.getTime())
RECURSIVE InsertByDueDate(_, _)
InsertByDueDate(sorted, task) ==
    IF sorted = <<>> THEN <<task>>
    ELSE IF task.dueDate < Head(sorted).dueDate THEN <<task>> \o sorted
    ELSE <<Head(sorted)>> \o InsertByDueDate(Tail(sorted), task)

\* tasks.ts lines 21-28 with db.ts toStoredTask / fromStoredTask: the tasks
\* of status 'pending' or 'in-progress', their due dates read back, by due date
RECURSIVE getPendingTasks(_)
getPendingTasks(table) ==
    IF table = <<>> THEN <<>>
    ELSE LET stored == table[Len(table)]
             rest == getPendingTasks(SubSeq(table, 1, Len(table) - 1))
         IN IF stored.status \in {"pending", "in-progress"}
            THEN InsertByDueDate(rest, [stored EXCEPT !.dueDate = parseISO(stored.dueDate)])
            ELSE rest

\* tasks.ts lines 102-109: the loop over the reminder dates of one task; acc
\* holds the set notifiedTaskReminders and the list due
RECURSIVE reminderDatesLoop(_, _, _, _)
reminderDatesLoop(task, rds, now, acc) ==
    IF rds = <<>> THEN acc
    ELSE LET rd == Head(rds)
             key == <<task.id, toISOString(rd)>>
             msSince == (now - rd) * 1000
         IN reminderDatesLoop(task, Tail(rds), now,
                IF key \notin acc.notified /\ msSince >= 0 /\ msSince < 2 * 60 * 1000
                THEN [notified |-> acc.notified \cup {key},
                      due |-> Append(acc.due, [title |-> task.title,
                                               dueDate |-> task.dueDate])]
                ELSE acc)

\* tasks.ts lines 101-111: the loop over the pending tasks; now is new Date()
\* of line 96 and nowOfLoop the clock when the loop runs, after the await
RECURSIVE pendingTasksLoop(_, _, _, _)
pendingTasksLoop(pending, now, nowOfLoop, acc) ==
    IF pending = <<>> THEN acc
    ELSE pendingTasksLoop(Tail(pending), now, nowOfLoop,
            reminderDatesLoop(Head(pending),
                              computeReminderDates(Head(pending).dueDate, nowOfLoop),
                              now, acc))

\* The tasks of the session: one due today at 17:00, one due tomorrow at
\* noon and in progress, one done, and one due in ten days.
Task(id, dueDate, status) ==
    [id |-> id, title |-> id, dueDate |-> toISOString(dueDate), status |-> status]

TaskPool ==
    << Task(1, At(9, 3, 17, 0, 0), "pending"),
       Task(2, At(9, 4, 12, 0, 0), "in-progress"),
       Task(3, At(9, 3, 18, 0, 0), "done"),
       Task(4, At(10, 6, 17, 0, 0), "pending") >>

exceptTask ==
    <<conflictVars, habitVars, queryVars, finderVars, scorerVars, storeVars, chatVars,
      reminders, indexedFalse, smartReminders, reminderInterval, checks, notified,
      asyncVars>>

TaskInit ==
    /\ clock = SessionStart
    /\ tasks = TaskPool
    /\ notifiedTaskReminders = {}
    /\ taskChecks = <<>>
    /\ reminders = <<>> /\ indexedFalse = FALSE /\ smartReminders = <<>>
    /\ reminderInterval = 0 /\ checks = <<>> /\ notified = <<>>
    /\ ConflictIdle
    /\ habits = <<>> /\ calls = <<>> /\ history = <<>> /\ seeded = 0
    /\ QueryIdle /\ FinderIdle /\ ScorerIdle /\ StoreCreated /\ ChatIdle /\ AsyncIdle

\* A minute passes.
MinutePasses ==
    /\ clock < SessionStart + MaxMinutes * 60
    /\ clock' = clock + 60
    /\ UNCHANGED <<tasks, notifiedTaskReminders, taskChecks, exceptTask>>

\* tasks.ts lines 30-36: updateTask(id, { status })
UpdateTask(id, status) ==
    /\ \E k \in DOMAIN tasks : tasks[k].id = id /\ tasks[k].status # status
    /\ tasks' = [k \in DOMAIN tasks |->
                    IF tasks[k].id = id THEN [tasks[k] EXCEPT !.status = status]
                    ELSE tasks[k]]
    /\ UNCHANGED <<clock, notifiedTaskReminders, taskChecks, exceptTask>>

\* tasks.ts lines 95-98: checkTaskReminders is called, reads the clock and
\* waits for getPendingTasks()
CheckTaskReminders ==
    /\ Len(taskChecks) < MaxTaskChecks
    /\ taskChecks' = Append(taskChecks, [pc |-> "getPendingTasks", now |-> clock,
                                         due |-> <<>>])
    /\ UNCHANGED <<clock, tasks, notifiedTaskReminders, exceptTask>>

\* tasks.ts lines 98-111: the tasks arrive, the loops run and call c returns
ReturnDue(c) ==
    /\ taskChecks[c].pc = "getPendingTasks"
    /\ LET acc == pendingTasksLoop(getPendingTasks(tasks), taskChecks[c].now, clock,
                                   [notified |-> notifiedTaskReminders, due |-> <<>>])
       IN /\ notifiedTaskReminders' = acc.notified
          /\ taskChecks' = [taskChecks EXCEPT ![c].pc = "returned", ![c].due = acc.due]
    /\ UNCHANGED <<clock, tasks, exceptTask>>

TaskNext ==
    \/ MinutePasses
    \/ \E id \in 1..2 : UpdateTask(id, "done")
    \/ CheckTaskReminders
    \/ \E c \in DOMAIN taskChecks : ReturnDue(c)

TaskSpec == TaskInit /\ [][TaskNext]_vars

\* The schedule of a task: its reminder dates as computeReminderDates gives
\* them when the session begins.
Schedule(task) == Range(computeReminderDates(parseISO(task.dueDate), SessionStart))

Reported(title) ==
    {c \in DOMAIN taskChecks : \E k \in DOMAIN taskChecks[c].due :
                                  taskChecks[c].due[k].title = title}

\* C26 as stated: a check made within the 2 minutes after a reminder date of
\* a pending task returns the task, unless an earlier check has returned it
\* for that date, and no later check returns it again.
C26_ReportedOncePerDate ==
    \A k \in DOMAIN tasks : \A rd \in Schedule(tasks[k]) :
        /\ Cardinality(Reported(tasks[k].title)) <= 1
        /\ \A c \in DOMAIN taskChecks :
              ( /\ taskChecks[c].pc = "returned"
                /\ tasks[k].status \in {"pending", "in-progress"}
                /\ rd <= taskChecks[c].now
                /\ taskChecks[c].now < rd + 120 )
              => Reported(tasks[k].title) # {}

----------------------------------------------------------------------------
(* stores/calendarStore.ts: the store's actions as they run, each            *)
(* suspended at its awaits while other actions are called.                  *)

MaxStoreCalls == 2
MaxLoads == 3

\* The events stored by earlier sessions: the two overlapping events of
\* Today's date.
EarlierEvents ==
    << [id |-> 1, start |-> At(9, 3, 9, 0, 0), end |-> At(9, 3, 10, 0, 0),
        allDay |-> FALSE, category |-> "work"],
       [id |-> 2, start |-> At(9, 3, 9, 30, 0), end |-> At(9, 3, 10, 30, 0),
        allDay |-> FALSE, category |-> "personal"] >>

exceptAsync ==
    <<conflictVars, queryVars, finderVars, scorerVars, chatVars, reminderVars, taskVars>>

\* calendarStore.ts lines 84-103: the store as created, on the database of
\* earlier sessions
AsyncStoreInit ==
    /\ dbEvents = [k \in DOMAIN EarlierEvents |-> toStoredEvent(EarlierEvents[k])]
    /\ habits = learnAll(<<>>, EarlierEvents)
    /\ history = EarlierEvents
    /\ seeded = Len(EarlierEvents)
    /\ calls = <<>>
    /\ currentDate = Today /\ view = "month"
    /\ visibleEvents = <<>> /\ storeConflicts = <<>>
    /\ AsyncIdle
    /\ ConflictIdle
    /\ QueryIdle /\ FinderIdle /\ ScorerIdle /\ ChatIdle /\ ReminderIdle /\ TaskIdle

\* calendarStore.ts lines 190-211: loadVisibleEvents reads currentDate and
\* view, computes the range and waits for getEventsInRange(start, end)
loadVisibleEventsCalled(date, v) ==
    Append(loads, [pc |-> "getEventsInRange",
                   start |-> rangeStart(date, v), end |-> rangeEnd(date, v)])

\* calendarStore.ts lines 138-141
CallSetCurrentDate(date) ==
    /\ Len(loads) < MaxLoads
    /\ Navigable(date)
    /\ currentDate' = date
    /\ loads' = loadVisibleEventsCalled(date, view)
    /\ UNCHANGED <<dbEvents, view, visibleEvents, storeConflicts, isLoading, storeCalls,
                   habitVars, exceptAsync>>

\* calendarStore.ts lines 143-146
CallSetView(v) ==
    /\ Len(loads) < MaxLoads
    /\ view' = v
    /\ loads' = loadVisibleEventsCalled(currentDate, v)
    /\ UNCHANGED <<dbEvents, currentDate, visibleEvents, storeConflicts, isLoading,
                   storeCalls, habitVars, exceptAsync>>

\* calendarStore.ts lines 148-164
CallNavigateForward ==
    LET newDate == IF view = "month" THEN addMonths(currentDate, 1)
                   ELSE IF view = "week" THEN addWeeks(currentDate, 1)
                   ELSE addDays(currentDate, 1)
    IN /\ Len(loads) < MaxLoads
       /\ Navigable(newDate)
       /\ currentDate' = newDate
       /\ loads' = loadVisibleEventsCalled(newDate, view)
       /\ UNCHANGED <<dbEvents, view, visibleEvents, storeConflicts, isLoading,
                      storeCalls, habitVars, exceptAsync>>

\* calendarStore.ts lines 166-182
CallNavigateBackward ==
    LET newDate == IF view = "month" THEN addMonths(currentDate, -1)
                   ELSE IF view = "week" THEN addWeeks(currentDate, -1)
                   ELSE addDays(currentDate, -1)
    IN /\ Len(loads) < MaxLoads
       /\ Navigable(newDate)
       /\ currentDate' = newDate
       /\ loads' = loadVisibleEventsCalled(newDate, view)
       /\ UNCHANGED <<dbEvents, view, visibleEvents, storeConflicts, isLoading,
                      storeCalls, habitVars, exceptAsync>>

\* calendarStore.ts lines 184-187
CallGoToToday ==
    /\ Len(loads) < MaxLoads
    /\ currentDate' = Today
    /\ loads' = loadVisibleEventsCalled(Today, view)
    /\ UNCHANGED <<dbEvents, view, visibleEvents, storeConflicts, isLoading, storeCalls,
                   habitVars, exceptAsync>>

\* calendarStore.ts lines 211-213: the range query of call l is answered;
\* visibleEvents is set and detectConflicts() run on it.  The store action
\* that awaits the call, if any, ends with it.
GetEventsInRangeAnswered(l) ==
    /\ loads[l].pc = "getEventsInRange"
    /\ LET visible == getEventsInRange(dbEvents, loads[l].start, loads[l].end)
       IN /\ visibleEvents' = visible
          /\ storeConflicts' = storeDetectConflicts(visible)
    /\ loads' = [loads EXCEPT ![l].pc = "done"]
    /\ storeCalls' = [c \in DOMAIN storeCalls |->
                         IF storeCalls[c].pc = "loadVisibleEvents" /\ storeCalls[c].load = l
                         THEN [storeCalls[c] EXCEPT !.pc = "done"]
                         ELSE storeCalls[c]]
    /\ UNCHANGED <<dbEvents, currentDate, view, isLoading, habitVars, exceptAsync>>

\* calendarStore.ts lines 107, 218, 244, 264: set({ isLoading: true, error:
\* null }) and the first await of initialize, addEvent, updateEvent or
\* deleteEvent
CallStoreAction(op, arg) ==
    /\ Len(storeCalls) < MaxStoreCalls
    /\ isLoading' = TRUE
    /\ storeCalls' = Append(storeCalls, [op |-> op, arg |-> arg, pc |-> "storage",
                                         load |-> 0])
    /\ UNCHANGED <<loads, storeVars, habitVars, exceptAsync>>

\* calendarStore.ts lines 129-134, 234-240, 255-260, 273-278: the storage
\* call of action c rejects; the catch block sets isLoading to false
StorageThrows(c) ==
    /\ storeCalls[c].pc = "storage"
    /\ isLoading' = FALSE
    /\ storeCalls' = [storeCalls EXCEPT ![c].pc = "done"]
    /\ UNCHANGED <<loads, storeVars, habitVars, exceptAsync>>

\* The store action c goes on to set({ ..., isLoading: false }) and to await
\* get().loadVisibleEvents()
loadAwaitedBy(c) ==
    /\ isLoading' = FALSE
    /\ loads' = loadVisibleEventsCalled(currentDate, view)
    /\ storeCalls' = [storeCalls EXCEPT ![c].pc = "loadVisibleEvents",
                                        ![c].load = Len(loads) + 1]

\* calendarStore.ts lines 109-123: initialize
InitializeLoaded(c) ==
    /\ storeCalls[c].pc = "storage" /\ storeCalls[c].op = "initialize"
    /\ Len(loads) < MaxLoads
    /\ loadAwaitedBy(c)
    /\ UNCHANGED <<storeVars, habitVars, exceptAsync>>

\* calendarStore.ts lines 220-232 with events.ts lines 11-23: addEvent;
\* createEvent, learnFromEvent and getAllHabits have returned
AddEventStored(c) ==
    /\ storeCalls[c].pc = "storage" /\ storeCalls[c].op = "addEvent"
    /\ Len(loads) < MaxLoads
    /\ LET eventData == storeCalls[c].arg
           newEvent == [id |-> Len(history) + 1, start |-> eventData.start,
                        end |-> eventData.end, allDay |-> eventData.allDay,
                        category |-> eventData.category]
       IN /\ dbEvents' = Append(dbEvents, toStoredEvent(newEvent))
          /\ habits' = learnFromEvent(habits, newEvent)
          /\ history' = Append(history, newEvent)
    /\ loadAwaitedBy(c)
    /\ UNCHANGED <<currentDate, view, visibleEvents, storeConflicts, calls, seeded,
                   exceptAsync>>

\* calendarStore.ts lines 246-254 with events.ts lines 31-44: updateEvent;
\* updateEventInDb returns undefined for an id without record and the action
\* ends after the if
UpdateEventStored(c) ==
    /\ storeCalls[c].pc = "storage" /\ storeCalls[c].op = "updateEvent"
    /\ Len(loads) < MaxLoads
    /\ IF \E k \in DOMAIN dbEvents : dbEvents[k].id = storeCalls[c].arg.id
       THEN /\ dbEvents' =
                  [k \in DOMAIN dbEvents |->
                      IF dbEvents[k].id = storeCalls[c].arg.id
                      THEN toStoredEvent([fromStoredEvent(dbEvents[k]) EXCEPT
                                             !.start = storeCalls[c].arg.start,
                                             !.end = storeCalls[c].arg.end])
                      ELSE dbEvents[k]]
            /\ loadAwaitedBy(c)
       ELSE /\ storeCalls' = [storeCalls EXCEPT ![c].pc = "done"]
            /\ UNCHANGED <<dbEvents, isLoading, loads>>
    /\ UNCHANGED <<currentDate, view, visibleEvents, storeConflicts, habitVars,
                   exceptAsync>>

\* calendarStore.ts lines 266-272 with events.ts lines 47-55: deleteEvent
DeleteEventStored(c) ==
    /\ storeCalls[c].pc = "storage" /\ storeCalls[c].op = "deleteEvent"
    /\ Len(loads) < MaxLoads
    /\ dbEvents' = SelectSeq(dbEvents, LAMBDA e : e.id # storeCalls[c].arg.id)
    /\ loadAwaitedBy(c)
    /\ UNCHANGED <<currentDate, view, visibleEvents, storeConflicts, habitVars,
                   exceptAsync>>

\* What the user asks for: the all-day event of Today's date added, an event
\* (stored or not) moved to the Thursday of the week after, an event deleted.
StoreActions ==
    {<<"initialize", [id |-> 0]>>}
    \cup {<<"addEvent", StoreEvent(At(9, 3, 0, 0, 0), At(9, 3, 23, 59, 59), TRUE, Undefined)>>}
    \cup {<<"updateEvent", [id |-> id, start |-> At(10, 4, 9, 0, 0),
                            end |-> At(10, 4, 10, 0, 0)]>> : id \in {1, 3}}
    \cup {<<"deleteEvent", [id |-> 2]>>}

AsyncStoreNext ==
    \/ \E date \in {At(10, 4, 12, 0, 0)} : CallSetCurrentDate(date)
    \/ \E v \in {"week", "day"} : CallSetView(v)
    \/ CallNavigateForward
    \/ CallNavigateBackward
    \/ CallGoToToday
    \/ \E l \in DOMAIN loads : GetEventsInRangeAnswered(l)
    \/ \E a \in StoreActions : CallStoreAction(a[1], a[2])
    \/ \E c \in DOMAIN storeCalls : StorageThrows(c)
    \/ \E c \in DOMAIN storeCalls : InitializeLoaded(c)
    \/ \E c \in DOMAIN storeCalls : AddEventStored(c)
    \/ \E c \in DOMAIN storeCalls : UpdateEventStored(c)
    \/ \E c \in DOMAIN storeCalls : DeleteEventStored(c)

AsyncStoreSpec == AsyncStoreInit /\ [][AsyncStoreNext]_vars

\* C28 as stated, for runs that end: when the store actions called have all
\* ended, whether their storage call succeeded, threw or found no record,
\* isLoading is false.
C28_LoadingEnds ==
    (\A c \in DOMAIN storeCalls : storeCalls[c].pc = "done") => isLoading = FALSE

\* C29 as stated: when the loadVisibleEvents calls made have all completed,
\* visibleEvents holds the events of the range of the store's currentDate and
\* view, and conflicts the conflicts of those events.
C29_VisibleIsCurrentRange ==
    (loads # <<>> /\ \A l \in DOMAIN loads : loads[l].pc = "done") =>
        /\ visibleEvents = getEventsInRange(dbEvents, rangeStart(currentDate, view),
                                            rangeEnd(currentDate, view))
        /\ storeConflicts = storeDetectConflicts(visibleEvents)

====
